---------------------------- MODULE Spec2Model ----------------------------
(***************************************************************************)
(* A model of the crate embedded-error-chain: the bit-packed ErrorData     *)
(* word, the ErrorCategory link tables and their formatter functions, the  *)
(* typed Error<C> and the type-erased DynError, chaining on both, the      *)
(* ErrorIter walk and the Debug rendering.                                 *)
(*                                                                         *)
(* A u32 is held as its eight hexadecimal digits, digit 0 the least        *)
(* significant, so that shifts truncate as the hardware does.              *)
(***************************************************************************)
EXTENDS Integers, Sequences, FiniteSets, TLC

VARIABLES
    cfg,        \* the build: cargo feature panic-on-overflow, debug assertions
    kind,       \* what the value under construction is: "none", "ErrorData", "Error", "DynError"
    data,       \* ErrorData.data, the packed u32
    cat,        \* the category of the current code: Error<C>'s C, DynError's category_formatter
    hist,       \* the calls made so far: the codes given, newest first, each with its category and the link index given when it was pushed down
    ret,        \* what the last call returned
    panicked,   \* the panic message once a call has panicked, "" before
    iter        \* the ErrorIter (or ErrorDataChainIter) being consumed, and what it has yielded

vars == <<cfg, kind, data, cat, hist, ret, panicked, iter>>

-----------------------------------------------------------------------------
(* u32 arithmetic *)

\* A u32 is held as its eight hexadecimal digits, digit 0 the least significant.
Digits == 0..7

ZeroWord == [k \in Digits |-> 0]

Pow2(n) == 2 ^ n

\* Bit i of a number.
BitOf(n, i) == (n \div Pow2(i)) % 2

\* A hexadecimal literal, most significant digit first, as the source writes it.
Hex(nibbles) == [k \in Digits |-> nibbles[Len(nibbles) - k]]

\* `n as u32` for a number below 2^31.
ToWord(n) == [k \in Digits |-> (n \div Pow2(4 * k)) % 16]

\* The number a word holds in its low 31 bits.
WordVal(w) ==
    w[0] + 16 * (w[1] + 16 * (w[2] + 16 * (w[3] + 16 * (w[4]
         + 16 * (w[5] + 16 * (w[6] + 16 * (w[7] % 8)))))))

\* `w as u8`
AsU8(w) == w[0] + 16 * w[1]

\* & and | on one hexadecimal digit, bit by bit.
AndDigit ==
    [a \in 0..15 |-> [b \in 0..15 |->
        BitOf(a, 0) * BitOf(b, 0) + 2 * BitOf(a, 1) * BitOf(b, 1)
            + 4 * BitOf(a, 2) * BitOf(b, 2) + 8 * BitOf(a, 3) * BitOf(b, 3)]]

OrDigit == [a \in 0..15 |-> [b \in 0..15 |-> a + b - AndDigit[a][b]]]

BitAnd(a, b) == [k \in Digits |-> AndDigit[a[k]][b[k]]]

BitOr(a, b) == [k \in Digits |-> OrDigit[a[k]][b[k]]]

BitNot(a) == [k \in Digits |-> 15 - a[k]]

\* a << n: digit k takes the low bits of digit k - n/4 and the high bits of
\* the digit below it.
Shl(a, n) ==
    LET q == n \div 4
        r == n % 4
    IN  [k \in Digits |->
            ((IF k >= q THEN a[k - q] * Pow2(r) ELSE 0) % 16)
                + (IF k >= q + 1 THEN a[k - q - 1] \div Pow2(4 - r) ELSE 0)]

\* a >> n
Shr(a, n) ==
    LET q == n \div 4
        r == n % 4
    IN  [k \in Digits |->
            (IF k + q <= 7 THEN a[k + q] \div Pow2(r) ELSE 0)
                + ((IF k + q + 1 <= 7 THEN a[k + q + 1] * Pow2(4 - r) ELSE 0) % 16)]

\* Option<T>
None == <<>>

Some(v) == <<v>>

-----------------------------------------------------------------------------
(* error_data.rs: consts *)

ERROR_CHAIN_LEN == 4

CODE_MASK ==
    << Hex(<<0, 0, 0, 0, 0, 0, 0, 15>>),
       Hex(<<0, 0, 0, 0, 0, 0, 15, 0>>),
       Hex(<<0, 0, 0, 0, 0, 15, 0, 0>>),
       Hex(<<0, 0, 0, 0, 15, 0, 0, 0>>),
       Hex(<<0, 0, 0, 15, 0, 0, 0, 0>>) >>

ALL_CODE_MASK == Hex(<<0, 0, 0, 15, 15, 15, 15, 15>>)

CODE_WIDTH == 4

make_code(value) == ToWord(value % 16)

FORMATTER_MASK ==
    << Hex(<<0, 0, 7, 0, 0, 0, 0, 0>>),
       Hex(<<0, 3, 8, 0, 0, 0, 0, 0>>),
       Hex(<<1, 12, 0, 0, 0, 0, 0, 0>>),
       Hex(<<14, 0, 0, 0, 0, 0, 0, 0>>) >>

ALL_FORMATTER_MASK == Hex(<<15, 15, 15, 0, 0, 0, 0, 0>>)

FORMATTER_BITOFFSET == 20

FORMATTER_IDX_WIDTH == 3

\* The link index masked to four bits instead of three.
make_formatter_idx_wide(value) == ToWord(value % 16)

make_formatter_idx(value) == ToWord(value % 8)

-----------------------------------------------------------------------------
(* error_data.rs: ErrorData *)

\* new that stores the code in the first chained slot.
ErrorData_new_shifted(error_code) ==
    BitAnd(Shl(ToWord(error_code), CODE_WIDTH), CODE_MASK[2])

\* ErrorData::new
ErrorData_new(error_code) == BitAnd(ToWord(error_code), CODE_MASK[1])

\* ErrorData::code
code(d) == WordVal(BitAnd(d, CODE_MASK[1]))

\* set_code that stores the code without masking it to four bits.
set_code_unmasked(d, c) ==
    [ data |-> BitOr(BitAnd(d, BitNot(CODE_MASK[1])), ToWord(c)),
      old  |-> WordVal(make_code(AsU8(d))) ]

\* ErrorData::set_code: the new word and the old code
set_code(d, c) ==
    [ data |-> BitOr(BitAnd(d, BitNot(CODE_MASK[1])), make_code(c)),
      old  |-> WordVal(make_code(AsU8(d))) ]

\* first_formatter_index with the +1 bias left in.
first_formatter_index_biased(d) ==
    LET fmt_index == AsU8(Shr(BitAnd(d, FORMATTER_MASK[1]), FORMATTER_BITOFFSET))
    IN  IF fmt_index > 0 THEN Some(fmt_index) ELSE None

\* ErrorData::first_formatter_index
first_formatter_index(d) ==
    LET fmt_index == AsU8(Shr(BitAnd(d, FORMATTER_MASK[1]), FORMATTER_BITOFFSET))
    IN  IF fmt_index > 0 THEN Some(fmt_index - 1) ELSE None

\* ErrorData::chain_len: the for loop over 0..ERROR_CHAIN_LEN with its shifted mask
RECURSIVE chain_len_loop(_, _, _)
chain_len_loop(d, mask, fmt_index) ==
    IF fmt_index >= ERROR_CHAIN_LEN THEN ERROR_CHAIN_LEN
    ELSE IF BitAnd(d, mask) = ZeroWord THEN fmt_index
    ELSE chain_len_loop(d, Shl(mask, FORMATTER_IDX_WIDTH), fmt_index + 1)

\* chain_len whose loop never shifts the mask.
chain_len_unshifted(d) ==
    IF BitAnd(d, FORMATTER_MASK[1]) = ZeroWord THEN 0 ELSE ERROR_CHAIN_LEN

chain_len(d) == chain_len_loop(d, FORMATTER_MASK[1], 0)

\* ErrorData::chain_full
chain_full(d) == chain_len(d) = ERROR_CHAIN_LEN

\* The link index stored without its bias.
U8AddOne_unbiased(v, overflow_checks) == [val |-> v, panic |-> FALSE]

\* `category_index + 1` on u8: with overflow checks 255 + 1 panics, without it wraps.
U8AddOne(v, overflow_checks) ==
    IF v + 1 > 255
    THEN [val |-> 0, panic |-> overflow_checks]
    ELSE [val |-> v + 1, panic |-> FALSE]

\* push_front that reads the evicted code one slot too early.
push_front_early_back(d, error_code, category_index, overflow_checks) ==
    LET fmt_index_back == BitAnd(d, FORMATTER_MASK[ERROR_CHAIN_LEN])
        result ==
            IF fmt_index_back # ZeroWord
            THEN LET ec_back ==
                         Shr(BitAnd(d, CODE_MASK[ERROR_CHAIN_LEN]),
                             (ERROR_CHAIN_LEN - 1) * CODE_WIDTH)
                     back ==
                         Shr(fmt_index_back,
                             (ERROR_CHAIN_LEN - 1) * FORMATTER_IDX_WIDTH
                                 + FORMATTER_BITOFFSET)
                 IN  Some(<<AsU8(ec_back), AsU8(ToWord(WordVal(back) - 1))>>)
            ELSE None
        plus_one == U8AddOne(category_index, overflow_checks)
        fmt_indices ==
            BitOr(Shl(BitAnd(d, ALL_FORMATTER_MASK), FORMATTER_IDX_WIDTH),
                  Shl(make_formatter_idx(plus_one.val), FORMATTER_BITOFFSET))
        err_codes ==
            BitOr(BitAnd(Shl(d, CODE_WIDTH), ALL_CODE_MASK), make_code(error_code))
    IN  IF plus_one.panic
        THEN [data |-> d, result |-> None, panic |-> TRUE]
        ELSE [data |-> BitOr(fmt_indices, err_codes), result |-> result, panic |-> FALSE]

\* push_front that shifts the codes without masking them to the code fields.
push_front_unmasked(d, error_code, category_index, overflow_checks) ==
    LET fmt_index_back == BitAnd(d, FORMATTER_MASK[ERROR_CHAIN_LEN])
        result ==
            IF fmt_index_back # ZeroWord
            THEN LET ec_back ==
                         Shr(BitAnd(d, CODE_MASK[ERROR_CHAIN_LEN + 1]),
                             ERROR_CHAIN_LEN * CODE_WIDTH)
                     back ==
                         Shr(fmt_index_back,
                             (ERROR_CHAIN_LEN - 1) * FORMATTER_IDX_WIDTH
                                 + FORMATTER_BITOFFSET)
                 IN  Some(<<AsU8(ec_back), AsU8(ToWord(WordVal(back) - 1))>>)
            ELSE None
        plus_one == U8AddOne(category_index, overflow_checks)
        fmt_indices ==
            BitOr(Shl(BitAnd(d, ALL_FORMATTER_MASK), FORMATTER_IDX_WIDTH),
                  Shl(make_formatter_idx(plus_one.val), FORMATTER_BITOFFSET))
        err_codes == BitOr(Shl(BitAnd(d, ALL_CODE_MASK), CODE_WIDTH), make_code(error_code))
    IN  IF plus_one.panic
        THEN [data |-> d, result |-> None, panic |-> TRUE]
        ELSE [data |-> BitOr(fmt_indices, err_codes), result |-> result, panic |-> FALSE]

\* ErrorData::push_front: the new word, the evicted back of the chain, and
\* whether the u8 addition panicked (the word is then left as it was).
push_front(d, error_code, category_index, overflow_checks) ==
    LET fmt_index_back == BitAnd(d, FORMATTER_MASK[ERROR_CHAIN_LEN])
        result ==
            IF fmt_index_back # ZeroWord
            THEN LET ec_back ==
                         Shr(BitAnd(d, CODE_MASK[ERROR_CHAIN_LEN + 1]),
                             ERROR_CHAIN_LEN * CODE_WIDTH)
                     back ==
                         Shr(fmt_index_back,
                             (ERROR_CHAIN_LEN - 1) * FORMATTER_IDX_WIDTH
                                 + FORMATTER_BITOFFSET)
                 IN  Some(<<AsU8(ec_back), AsU8(ToWord(WordVal(back) - 1))>>)
            ELSE None
        plus_one == U8AddOne(category_index, overflow_checks)
        fmt_indices ==
            BitOr(Shl(BitAnd(d, ALL_FORMATTER_MASK), FORMATTER_IDX_WIDTH),
                  Shl(make_formatter_idx(plus_one.val), FORMATTER_BITOFFSET))
        err_codes ==
            BitOr(BitAnd(Shl(d, CODE_WIDTH), ALL_CODE_MASK), make_code(error_code))
    IN  IF plus_one.panic
        THEN [data |-> d, result |-> None, panic |-> TRUE]
        ELSE [data |-> BitOr(fmt_indices, err_codes), result |-> result, panic |-> FALSE]

OverflowMsg == "chaining two errors overflowed; error chain is full"

AddOverflowMsg == "attempt to add with overflow"

\* ErrorData::chain: push_front, then the debug_assert! of the feature panic-on-overflow
ErrorData_chain(d, error_code, category_index, build) ==
    LET pushed == push_front(d, error_code, category_index, build.debug_assertions)
    IN  IF pushed.panic
        THEN [data |-> d, panic |-> AddOverflowMsg]
        ELSE IF build.panic_on_overflow /\ build.debug_assertions
                 /\ pushed.result # None
        THEN [data |-> pushed.data, panic |-> OverflowMsg]
        ELSE [data |-> pushed.data, panic |-> ""]

\* iter_chain that leaves the current code in front of the chained codes.
iter_chain_unshifted(d) ==
    [ error_codes |-> BitAnd(d, ALL_CODE_MASK),
      formatters  |-> Shr(BitAnd(d, ALL_FORMATTER_MASK), FORMATTER_BITOFFSET) ]

\* ErrorDataChainIter: ErrorData::iter_chain and next
iter_chain(d) ==
    [ error_codes |-> Shr(BitAnd(d, ALL_CODE_MASK), CODE_WIDTH),
      formatters  |-> Shr(BitAnd(d, ALL_FORMATTER_MASK), FORMATTER_BITOFFSET) ]

\* ErrorDataChainIter::next: the advanced iterator and the item (None at the end)
ErrorDataChainIter_next(ci) ==
    IF ci.formatters # ZeroWord
    THEN LET ec == BitAnd(ci.error_codes, CODE_MASK[1])
             error_codes == Shr(ci.error_codes, CODE_WIDTH)
             formatters == Shr(ci.formatters, FORMATTER_IDX_WIDTH)
             next_fmt_index == WordVal(make_formatter_idx(AsU8(formatters)))
         IN  [ iter |-> [error_codes |-> error_codes, formatters |-> formatters],
               item |-> Some(<<AsU8(ec),
                               IF next_fmt_index > 0
                               THEN Some(next_fmt_index - 1) ELSE None>>) ]
    ELSE [iter |-> ci, item |-> None]

\* The items a fresh iter_chain yields, by calling next until it returns None.
RECURSIVE ChainItems(_)
ChainItems(ci) ==
    LET n == ErrorDataChainIter_next(ci)
    IN  IF n.item = None THEN <<>> ELSE <<n.item[1]>> \o ChainItems(n.iter)

-----------------------------------------------------------------------------
(* The categories: the enums of tests/chain.rs (hand-written impls that keep  *)
(* the trait's default six-entry table), the enums of tests/error_attr.rs     *)
(* (derived, so the table holds the links only), marker::Unused, and a        *)
(* derived enum that names the same category twice in links(...).             *)

Unused == "Unused"

Categories ==
    { Unused, "TestError1", "TestError2", "TestError3",
      "OtherError", "TestError", "SeperateError", "TwiceError" }

\* ErrorCategory::NAME
NAME(c) ==
    CASE c = Unused -> ""
      [] c \in {"TestError1", "TestError2", "TestError3"} -> "ErrorCategory"
      [] c = "TestError" -> "optional name"
      [] OTHER -> c

\* ErrorCategory::L0 .. L5
Links(c) ==
    CASE c = "TestError1" -> <<Unused, Unused, Unused, "TestError3", Unused, Unused>>
      [] c = "TestError2" -> <<"TestError1", Unused, Unused, Unused, Unused, Unused>>
      [] c = "TestError3" -> <<"TestError3", "TestError1", "TestError2", Unused, Unused, Unused>>
      [] c = "TestError" -> <<"OtherError", Unused, Unused, Unused, Unused, Unused>>
      [] c = "SeperateError" -> <<"OtherError", "TestError", Unused, Unused, Unused, Unused>>
      [] c = "TwiceError" -> <<"TestError1", "TestError1", Unused, Unused, Unused, Unused>>
      [] OTHER -> <<Unused, Unused, Unused, Unused, Unused, Unused>>

\* Whether the impl is the derive macro's (or Unused's), which overrides
\* chainable_category_formatters, or keeps the trait's default method.
OverridesTable(c) ==
    c \in {Unused, "OtherError", "TestError", "SeperateError", "TwiceError"}

RECURSIVE LinkCount(_, _)
LinkCount(links, n) ==
    IF n = 0 \/ links[n] # Unused THEN n ELSE LinkCount(links, n - 1)

\* ErrorCategory::chainable_category_formatters: the slice of formatter
\* functions; format_chained::<X> is written X.
chainable_category_formatters(c) ==
    IF OverridesTable(c)
    THEN SubSeq(Links(c), 1, LinkCount(Links(c), 6))
    ELSE Links(c)

\* The variants of each enum: code -> variant name.
VariantNames(c) ==
    CASE c \in {"TestError1", "TestError2"} -> [x \in {0, 1} |-> IF x = 0 THEN "Err0" ELSE "Err1"]
      [] c = "TestError3" -> [x \in {3, 4} |-> IF x = 3 THEN "Err0" ELSE "Err1"]
      [] c = "OtherError" -> [x \in {0} |-> "ExtremeFailure"]
      [] c = "TestError" -> [x \in {0, 1, 2} |-> <<"Foo", "Other", "Bar">>[x + 1]]
      [] c = "SeperateError" -> [x \in {0} |-> "SomethingHappened"]
      [] c = "TwiceError" -> [x \in {0} |-> "Both"]
      [] OTHER -> [x \in {} |-> ""]

\* Into<ErrorCode>: the codes the values of the enum convert to.
Codes(c) == DOMAIN VariantNames(c)

\* From<ErrorCode> for the category: the variant, or the panic of the
\* assert!/debug_assert!/unreachable!() guarding the conversion. A derived
\* enum with several variants transmutes an invalid code unchecked when
\* debug assertions are off.
FromCode(c, error_code, build) ==
    IF error_code \in Codes(c)
    THEN [ok |-> TRUE, variant |-> VariantNames(c)[error_code]]
    ELSE IF ~OverridesTable(c) THEN [ok |-> FALSE, variant |-> "assertion failed"]
    ELSE IF c = Unused \/ Codes(c) = {}
    THEN [ok |-> FALSE, variant |-> "internal error: entered unreachable code"]
    ELSE IF build.debug_assertions
    THEN [ok |-> FALSE, variant |-> "tried to convert invalid error code to category type"]
    ELSE IF Cardinality(Codes(c)) = 1
    THEN [ok |-> TRUE, variant |-> VariantNames(c)[CHOOSE x \in Codes(c) : TRUE]]
    ELSE [ok |-> FALSE, variant |-> "undefined behaviour"]

\* The Debug text of a variant: derive(Debug) prints the variant name, the
\* derive macro the #[error] format string, else the doc summary, else the name.
DebugText(c, variant) ==
    CASE c = "TestError" /\ variant = "Bar" -> "Some explanation"
      [] c = "TestError" /\ variant = "Other" -> "custom some_expr, 200"
      [] c = "TestError" /\ variant = "Foo" ->
            "format string Foo error (summary), Detailed description. [...], Foo, optional name"
      [] OTHER -> variant

-----------------------------------------------------------------------------
(* The text sink: the pieces written so far, how many more writes succeed    *)
(* before the one write that fails (-1: no write fails), and whether the     *)
(* last write failed. After its failure the sink takes writes again.         *)

NewSink(budget) == [out |-> <<>>, budget |-> budget, failed |-> FALSE]

\* One write_str on the sink.
WriteStr(f, piece) ==
    IF f.budget = 0
    THEN [out |-> f.out, budget |-> -1, failed |-> TRUE]
    ELSE [ out |-> Append(f.out, piece),
           budget |-> IF f.budget > 0 THEN f.budget - 1 ELSE f.budget,
           failed |-> FALSE ]

\* write!: the pieces in turn, up to the first write that fails.
RECURSIVE WriteAll(_, _)
WriteAll(f, pieces) ==
    IF pieces = <<>> THEN [f EXCEPT !.failed = FALSE]
    ELSE LET w == WriteStr(f, Head(pieces))
         IN  IF w.failed THEN w ELSE WriteAll(w, Tail(pieces))

-----------------------------------------------------------------------------
(* error_category.rs: ErrorCategoryHandle and format_chained *)

\* The address of C::NAME: string constants of equal text share one address
\* in a build that merges them, and have one address each otherwise.
NamePtr(c, build) ==
    IF build.merge_strings THEN <<NAME(c)>> ELSE <<NAME(c), c>>

\* ErrorCategoryHandle::new::<C>()
ErrorCategoryHandle_new(c, build) ==
    [name |-> NamePtr(c, build), chainable_category_formatters |-> c]

\* ErrorCategoryHandle::name
Handle_name(h) == h.name[1]

\* Handle equality by the name pointer alone.
Handle_eq_by_name(h, other) == h.name = other.name

\* impl PartialEq for ErrorCategoryHandle
Handle_eq(h, other) ==
    h.name = other.name
        /\ h.chainable_category_formatters = other.chainable_category_formatters

\* ErrorCategoryHandle::is_handle_of::<C>()
is_handle_of(h, c, build) ==
    h.name = NamePtr(c, build) /\ h.chainable_category_formatters = c

\* format_chained with the bound of the table taken one too low.
format_chained_short(c, error_code, next_formatter, f, build) ==
    LET conv == FromCode(c, error_code, build)
        written ==
            IF f = None THEN None
            ELSE Some(WriteAll(f[1], <<NAME(c), "(", ToString(error_code), "): ",
                                        DebugText(c, conv.variant)>>))
        fmt_ok == f = None \/ ~written[1].failed
        formatters == chainable_category_formatters(c)
        next ==
            IF next_formatter = None THEN None
            ELSE IF next_formatter[1] + 1 < Len(formatters)
            THEN Some(formatters[next_formatter[1] + 1])
            ELSE None
    IN  IF f # None /\ ~conv.ok
        THEN [ handle |-> ErrorCategoryHandle_new(c, build), ok |-> FALSE,
               next |-> None, f |-> f, panic |-> conv.variant ]
        ELSE [ handle |-> ErrorCategoryHandle_new(c, build), ok |-> fmt_ok,
               next |-> IF fmt_ok THEN next ELSE None, f |-> written, panic |-> "" ]

\* format_chained::<C>(error_code, next_formatter, f), f = None or Some(sink):
\* the handle, the Result (ok, and the next formatter when ok), the sink
\* afterwards and the panic of the conversion to C, if any.
format_chained(c, error_code, next_formatter, f, build) ==
    LET conv == FromCode(c, error_code, build)
        written ==
            IF f = None THEN None
            ELSE Some(WriteAll(f[1], <<NAME(c), "(", ToString(error_code), "): ",
                                        DebugText(c, conv.variant)>>))
        fmt_ok == f = None \/ ~written[1].failed
        formatters == chainable_category_formatters(c)
        next ==
            IF next_formatter = None THEN None
            ELSE IF next_formatter[1] < Len(formatters)
            THEN Some(formatters[next_formatter[1] + 1])
            ELSE None
    IN  IF f # None /\ ~conv.ok
        THEN [ handle |-> ErrorCategoryHandle_new(c, build), ok |-> FALSE,
               next |-> None, f |-> f, panic |-> conv.variant ]
        ELSE [ handle |-> ErrorCategoryHandle_new(c, build), ok |-> fmt_ok,
               next |-> IF fmt_ok THEN next ELSE None, f |-> written, panic |-> "" ]

-----------------------------------------------------------------------------
(* error.rs: ErrorIter *)

\* Error::iter / DynError::iter
ErrorIter_new(d, formatter) ==
    [ formatter_func       |-> Some(formatter),
      curr_error_code      |-> code(d),
      next_formatter_index |-> first_formatter_index(d),
      chain_iter           |-> iter_chain(d) ]

\* next advancing whenever the record has a further pair, with the
\* formatter it has when the table gives none.
ErrorIter_next_by_record(it, build) ==
    IF it.formatter_func # None
    THEN LET called == format_chained(it.formatter_func[1], 0,
                                      it.next_formatter_index, None, build)
             pulled == ErrorDataChainIter_next(it.chain_iter)
         IN  [ iter |->
                 IF pulled.item # None
                 THEN [ formatter_func       |->
                            IF called.ok /\ called.next # None THEN called.next
                            ELSE it.formatter_func,
                        curr_error_code      |-> pulled.item[1][1],
                        next_formatter_index |-> pulled.item[1][2],
                        chain_iter           |-> pulled.iter ]
                 ELSE [ formatter_func       |-> None,
                        curr_error_code      |-> it.curr_error_code,
                        next_formatter_index |-> None,
                        chain_iter           |-> pulled.iter ],
               item |-> Some(<<it.curr_error_code, called.handle>>) ]
    ELSE [iter |-> it, item |-> None]

\* next returning None instead of the item of the node at which it ends.
ErrorIter_next_drop_last(it, build) ==
    IF it.formatter_func # None
    THEN LET called == format_chained(it.formatter_func[1], 0,
                                      it.next_formatter_index, None, build)
             pulled == ErrorDataChainIter_next(it.chain_iter)
         IN  IF pulled.item # None /\ called.ok /\ called.next # None
             THEN [ iter |-> [ formatter_func       |-> called.next,
                               curr_error_code      |-> pulled.item[1][1],
                               next_formatter_index |-> pulled.item[1][2],
                               chain_iter           |-> pulled.iter ],
                    item |-> Some(<<it.curr_error_code, called.handle>>) ]
             ELSE [ iter |-> [ formatter_func       |-> None,
                               curr_error_code      |-> it.curr_error_code,
                               next_formatter_index |-> None,
                               chain_iter           |-> pulled.iter ],
                    item |-> None ]
    ELSE [iter |-> it, item |-> None]

\* ErrorIter::next: the advanced iterator and the item (None once exhausted)
ErrorIter_next(it, build) ==
    IF it.formatter_func # None
    THEN LET called == format_chained(it.formatter_func[1], 0,
                                      it.next_formatter_index, None, build)
             pulled == ErrorDataChainIter_next(it.chain_iter)
         IN  [ iter |->
                 IF pulled.item # None /\ called.ok /\ called.next # None
                 THEN [ formatter_func       |-> called.next,
                        curr_error_code      |-> pulled.item[1][1],
                        next_formatter_index |-> pulled.item[1][2],
                        chain_iter           |-> pulled.iter ]
                 ELSE [ formatter_func       |-> None,
                        curr_error_code      |-> it.curr_error_code,
                        next_formatter_index |-> None,
                        chain_iter           |-> pulled.iter ],
               item |-> Some(<<it.curr_error_code, called.handle>>) ]
    ELSE [iter |-> it, item |-> None]

\* The items an iterator yields until its first None (for loops, any, find_map).
RECURSIVE IterItems(_, _)
IterItems(it, build) ==
    LET n == ErrorIter_next(it, build)
    IN  IF n.item = None THEN <<>> ELSE <<n.item[1]>> \o IterItems(n.iter, build)

\* Error::caused_by / DynError::caused_by: iter().any(..)
caused_by(d, formatter, t, error_code, build) ==
    LET items == IterItems(ErrorIter_new(d, formatter), build)
        category_handle == ErrorCategoryHandle_new(t, build)
    IN  \E i \in 1..Len(items) :
            Handle_eq(items[i][2], category_handle) /\ items[i][1] = error_code

\* find_map that keeps the last match.
RECURSIVE FindMapCode_last(_, _)
FindMapCode_last(items, category_handle) ==
    IF items = <<>> THEN None
    ELSE LET later == FindMapCode_last(Tail(items), category_handle)
         IN  IF later # None THEN later
             ELSE IF Handle_eq(Head(items)[2], category_handle)
             THEN Some(Head(items)[1])
             ELSE None

RECURSIVE FindMapCode(_, _)
FindMapCode(items, category_handle) ==
    IF items = <<>> THEN None
    ELSE IF Handle_eq(Head(items)[2], category_handle) THEN Some(Head(items)[1])
    ELSE FindMapCode(Tail(items), category_handle)

\* Error::code_of_category / DynError::code_of_category: iter().find_map(..),
\* the code before its conversion to T
code_of_category(d, formatter, t, build) ==
    FindMapCode(IterItems(ErrorIter_new(d, formatter), build),
                ErrorCategoryHandle_new(t, build))

-----------------------------------------------------------------------------
(* error.rs: static chaining; dyn_error.rs: DynError *)

\* The static chain replacing the current code instead of pushing it down.
ChainError_chain_replace(d, c, idx, error_code, build) ==
    [data |-> set_code(d, error_code).data, panic |-> ""]

\* The static chain storing the position after the one of its impl.
ChainError_chain_next(d, c, idx, error_code, build) ==
    ErrorData_chain(d, error_code, idx + 1, build)

\* impl_chain_error!([L0, 0] .. [L5, 5]): the impl for Error<C::Lidx>,
\* chaining error_code of category c onto the record d.
ChainError_chain(d, c, idx, error_code, build) ==
    ErrorData_chain(d, error_code, idx, build)

\* The position of the last formatter of the slice that is the given one.
RECURSIVE FindFormatter_last(_, _, _)
FindFormatter_last(formatters, formatter, i) ==
    IF i >= Len(formatters) THEN None
    ELSE LET later == FindFormatter_last(formatters, formatter, i + 1)
         IN  IF later # None THEN later
             ELSE IF formatters[i + 1] = formatter THEN Some(i)
             ELSE None

\* The position of the first formatter of the slice that is the given one.
RECURSIVE FindFormatter(_, _, _)
FindFormatter(formatters, formatter, i) ==
    IF i >= Len(formatters) THEN None
    ELSE IF formatters[i + 1] = formatter THEN Some(i)
    ELSE FindFormatter(formatters, formatter, i + 1)

\* impl PartialEq for DynError
DynError_eq(d, formatter, other_d, other_formatter) ==
    d = other_d /\ formatter = other_formatter

\* try_chain that chains the code before it looks for the formatter.
try_chain_eager(d, formatter, c, error_code, build) ==
    LET found == FindFormatter(chainable_category_formatters(c), formatter, 0)
        chained == ErrorData_chain(d, error_code,
                                   IF found = None THEN 0 ELSE found[1], build)
    IN  IF found = None
        THEN [ok |-> FALSE, data |-> chained.data, cat |-> formatter, panic |-> ""]
        ELSE [ ok |-> TRUE, data |-> chained.data, cat |-> c,
               panic |-> chained.panic ]

\* try_chain that chains the code once for every position of the slice that
\* holds the formatter.
RECURSIVE chain_each(_, _, _, _, _, _)
chain_each(d, formatters, formatter, error_code, i, build) ==
    IF i >= Len(formatters) THEN [data |-> d, panic |-> ""]
    ELSE IF formatters[i + 1] # formatter
    THEN chain_each(d, formatters, formatter, error_code, i + 1, build)
    ELSE LET chained == ErrorData_chain(d, error_code, i, build)
         IN  IF chained.panic # "" THEN chained
             ELSE chain_each(chained.data, formatters, formatter, error_code,
                             i + 1, build)

try_chain_each(d, formatter, c, error_code, build) ==
    LET formatters == chainable_category_formatters(c)
    IN  IF FindFormatter(formatters, formatter, 0) = None
        THEN [ok |-> FALSE, data |-> d, cat |-> formatter, panic |-> ""]
        ELSE LET chained == chain_each(d, formatters, formatter, error_code, 0, build)
             IN  [ ok |-> TRUE, data |-> chained.data, cat |-> c,
                   panic |-> chained.panic ]

\* DynError::try_chain::<C>(self, error_code): Ok(Error<C>) with the chained
\* record, or Err(self).
try_chain(d, formatter, c, error_code, build) ==
    LET found == FindFormatter(chainable_category_formatters(c), formatter, 0)
    IN  IF found = None
        THEN [ok |-> FALSE, data |-> d, cat |-> formatter, panic |-> ""]
        ELSE LET chained == ErrorData_chain(d, error_code, found[1], build)
             IN  [ ok |-> TRUE, data |-> chained.data, cat |-> c,
                   panic |-> chained.panic ]

\* DynError::category_handle
category_handle(formatter, build) ==
    format_chained(formatter, 0, None, None, build).handle

\* DynError::is::<C>()
DynError_is(formatter, c, build) ==
    is_handle_of(category_handle(formatter, build), c, build)

\* The loop of fmt writing a bare newline between the nodes.
RECURSIVE FmtChain_newline(_, _, _, _)
FmtChain_newline(items, formatter_func, f, build) ==
    IF items = <<>> \/ formatter_func = None
    THEN [ok |-> TRUE, f |-> f, panic |-> ""]
    ELSE LET sep == WriteStr(f, "\n")
         IN  IF sep.failed THEN [ok |-> FALSE, f |-> sep, panic |-> ""]
             ELSE LET called == format_chained(formatter_func[1], Head(items)[1],
                                               Head(items)[2], Some(sep), build)
                  IN  IF called.panic # ""
                      THEN [ok |-> FALSE, f |-> sep, panic |-> called.panic]
                      ELSE IF ~called.ok
                      THEN [ok |-> FALSE, f |-> called.f[1], panic |-> ""]
                      ELSE FmtChain_newline(Tail(items), called.next, called.f[1], build)

\* The loop of fmt dropping the result of writing the separator.
RECURSIVE FmtChain_swallow(_, _, _, _)
FmtChain_swallow(items, formatter_func, f, build) ==
    IF items = <<>> \/ formatter_func = None
    THEN [ok |-> TRUE, f |-> f, panic |-> ""]
    ELSE LET sep == WriteStr(f, "\n- ")
             called == format_chained(formatter_func[1], Head(items)[1],
                                      Head(items)[2], Some(sep), build)
         IN  IF called.panic # ""
             THEN [ok |-> FALSE, f |-> sep, panic |-> called.panic]
             ELSE IF ~called.ok
             THEN [ok |-> FALSE, f |-> called.f[1], panic |-> ""]
             ELSE FmtChain_swallow(Tail(items), called.next, called.f[1], build)

\* impl fmt::Debug for DynError: the loop over iter_chain
RECURSIVE FmtChain(_, _, _, _)
FmtChain(items, formatter_func, f, build) ==
    IF items = <<>> \/ formatter_func = None
    THEN [ok |-> TRUE, f |-> f, panic |-> ""]
    ELSE LET sep == WriteStr(f, "\n- ")
         IN  IF sep.failed THEN [ok |-> FALSE, f |-> sep, panic |-> ""]
             ELSE LET called == format_chained(formatter_func[1], Head(items)[1],
                                               Head(items)[2], Some(sep), build)
                  IN  IF called.panic # ""
                      THEN [ok |-> FALSE, f |-> sep, panic |-> called.panic]
                      ELSE IF ~called.ok
                      THEN [ok |-> FALSE, f |-> called.f[1], panic |-> ""]
                      ELSE FmtChain(Tail(items), called.next, called.f[1], build)

\* fmt that renders the current error only.
DynError_fmt_first(d, formatter, f, build) ==
    LET first == format_chained(formatter, code(d), first_formatter_index(d),
                                Some(f), build)
    IN  IF first.panic # "" THEN [ok |-> FALSE, f |-> f, panic |-> first.panic]
        ELSE IF ~first.ok THEN [ok |-> FALSE, f |-> first.f[1], panic |-> ""]
        ELSE [ok |-> TRUE, f |-> first.f[1], panic |-> ""]

\* impl fmt::Debug for DynError (Error<C> delegates to it): fmt
DynError_fmt(d, formatter, f, build) ==
    LET first == format_chained(formatter, code(d), first_formatter_index(d),
                                Some(f), build)
    IN  IF first.panic # "" THEN [ok |-> FALSE, f |-> f, panic |-> first.panic]
        ELSE IF ~first.ok THEN [ok |-> FALSE, f |-> first.f[1], panic |-> ""]
        ELSE FmtChain(ChainItems(iter_chain(d)), first.next, first.f[1], build)

-----------------------------------------------------------------------------
(* The builds and the bounds *)

\* The most chain (or push_front) calls made on one value.
MaxChains == 5

MaxPushes == 5

\* The codes and link indices given to ErrorData's own methods.
RawCodes == {0, 15}

RawIndices == {0, 6}

\* The builds: the cargo feature panic-on-overflow on or off, in the dev
\* profile (debug assertions and overflow checks on, constants not merged)
\* or the release profile (both off, equal string constants merged).
Profile(feature, dev) ==
    [ panic_on_overflow |-> feature, debug_assertions |-> dev,
      merge_strings |-> ~dev ]

Builds == {Profile(feature, dev) : feature \in BOOLEAN, dev \in BOOLEAN}

NoPanic == <<>>

NoIter == [state |-> "none"]

\* What the last call returned: the value itself (new, chain, from, Ok(..))
\* or the Err(self) of try_chain and try_into.
Returned == [op |-> "value"]

ReturnedErr(by, d, formatter) ==
    [op |-> "Err", by |-> by, error |-> d, category_formatter |-> formatter]

\* One entry of the call history: a code, the category it was given as
\* ("raw" for ErrorData's own methods) and the link index given with the call
\* that pushed it down the chain (None while it is the current code).
Entry(ec, c, link) == [code |-> ec, cat |-> c, link |-> link]

\* The history after a chain call: the current entry is pushed down with idx.
Pushed(h, ec, c, idx) ==
    <<Entry(ec, c, None)>> \o <<[Head(h) EXCEPT !.link = Some(idx)]>> \o Tail(h)

-----------------------------------------------------------------------------
(* The program that builds an error through the safe constructors and        *)
(* chain operations and reports it.                                          *)

Init ==
    /\ cfg \in Builds
    /\ kind = "none"
    /\ data = ZeroWord
    /\ cat = "none"
    /\ hist = <<>>
    /\ ret = Returned
    /\ panicked = NoPanic
    /\ iter = NoIter

Running == panicked = NoPanic

\* Error::new(error_code) / DynError::new(error_code)
New(c, ec, k) ==
    /\ kind = "none" /\ Running
    /\ kind' = k
    /\ data' = ErrorData_new(ec)
    /\ cat' = c
    /\ hist' = <<Entry(ec, c, None)>>
    /\ ret' = Returned
    /\ UNCHANGED <<cfg, panicked, iter>>

\* ChainError<C, (marker::L<idx>, Error_t)>::chain for Error<C::L<idx>>
Chain(c, idx, ec) ==
    /\ kind = "Error" /\ Running
    /\ Links(c)[idx + 1] = cat
    /\ Len(hist) <= MaxChains
    /\ LET r == ChainError_chain(data, c, idx, ec, cfg)
       IN  IF r.panic # ""
           THEN /\ panicked' = <<r.panic>>
                /\ ret' = Returned
                /\ UNCHANGED <<kind, data, cat, hist>>
           ELSE /\ data' = r.data
                /\ cat' = c
                /\ hist' = Pushed(hist, ec, c, idx)
                /\ ret' = Returned
                /\ UNCHANGED <<kind, panicked>>
    /\ UNCHANGED <<cfg, iter>>

\* ChainError<C, (marker::L<idx>, Concrete_t)>::chain for a bare C::L<idx>:
\* Error::new(self).chain(error_code)
ChainConcrete(old, oc, c, idx, ec) ==
    /\ kind = "none" /\ Running
    /\ Links(c)[idx + 1] = old
    /\ LET r == ChainError_chain(ErrorData_new(oc), c, idx, ec, cfg)
       IN  /\ data' = r.data
           /\ cat' = c
           /\ hist' = Pushed(<<Entry(oc, old, None)>>, ec, c, idx)
    /\ kind' = "Error"
    /\ ret' = Returned
    /\ UNCHANGED <<cfg, panicked, iter>>

\* impl From<Error<C>> for DynError
IntoDyn ==
    /\ kind = "Error" /\ Running
    /\ kind' = "DynError"
    /\ ret' = Returned
    /\ UNCHANGED <<cfg, data, cat, hist, panicked, iter>>

\* DynError::try_chain::<C>(error_code)
TryChain(c, ec) ==
    /\ kind = "DynError" /\ Running
    /\ Len(hist) <= MaxChains
    /\ LET r == try_chain(data, cat, c, ec, cfg)
       IN  IF ~r.ok
           THEN /\ ret' = ReturnedErr("try_chain", r.data, r.cat)
                /\ UNCHANGED <<kind, data, cat, hist, panicked>>
           ELSE IF r.panic # ""
           THEN /\ panicked' = <<r.panic>>
                /\ ret' = Returned
                /\ UNCHANGED <<kind, data, cat, hist>>
           ELSE /\ kind' = "Error"
                /\ data' = r.data
                /\ cat' = r.cat
                /\ hist' = Pushed(hist, ec, c,
                                  FindFormatter(chainable_category_formatters(c), cat, 0)[1])
                /\ ret' = Returned
                /\ UNCHANGED panicked
    /\ UNCHANGED <<cfg, iter>>

UnlinkedMsg == "cannot chain unlinked error categories"

\* Result<Error<O>, DynError>::expect(msg): the Ok value, or the panic with
\* msg, ": " and the Debug text of the Err value.
Result_expect(r, msg, build) ==
    IF ~r.ok
    THEN [ok |-> FALSE, data |-> r.data, cat |-> r.cat,
          panic |-> <<msg, ": ">>
                        \o DynError_fmt(r.data, r.cat, NewSink(-1), build).f.out]
    ELSE [ok |-> r.panic = "", data |-> r.data, cat |-> r.cat,
          panic |-> IF r.panic = "" THEN <<>> ELSE <<r.panic>>]

\* The wrapper panicking with the bare message, without the rendered error.
Result_expect_bare(r, msg, build) ==
    IF ~r.ok
    THEN [ok |-> FALSE, data |-> r.data, cat |-> r.cat, panic |-> <<msg>>]
    ELSE [ok |-> r.panic = "", data |-> r.data, cat |-> r.cat,
          panic |-> IF r.panic = "" THEN <<>> ELSE <<r.panic>>]

DynError_chain_bare(d, formatter, c, error_code, build) ==
    Result_expect_bare(try_chain(d, formatter, c, error_code, build),
                       UnlinkedMsg, build)

\* impl ChainError<O, DynError> for DynError:
\* self.try_chain(error_code).expect("cannot chain unlinked error categories")
DynError_chain(d, formatter, c, error_code, build) ==
    Result_expect(try_chain(d, formatter, c, error_code, build), UnlinkedMsg, build)

\* DynError::chain(error_code) of category c
DynChain(c, ec) ==
    /\ kind = "DynError" /\ Running
    /\ Len(hist) <= MaxChains
    /\ LET r == DynError_chain(data, cat, c, ec, cfg)
       IN  IF ~r.ok
           THEN /\ panicked' = r.panic
                /\ ret' = Returned
                /\ UNCHANGED <<kind, data, cat, hist>>
           ELSE /\ kind' = "Error"
                /\ data' = r.data
                /\ cat' = r.cat
                /\ hist' = Pushed(hist, ec, c,
                                  FindFormatter(chainable_category_formatters(c), cat, 0)[1])
                /\ ret' = Returned
                /\ UNCHANGED panicked
    /\ UNCHANGED <<cfg, iter>>

\* try_into that accepts an error with a code of the category anywhere in
\* its chain.
DynError_try_into_chained(d, formatter, c, build) ==
    IF code_of_category(d, formatter, c, build) # None
    THEN [ok |-> TRUE, data |-> d, cat |-> c]
    ELSE [ok |-> FALSE, data |-> d, cat |-> formatter]

\* DynError::try_into::<C>(): Ok(Error::<C>::from_raw(self.error)) or Err(self)
DynError_try_into(d, formatter, c, build) ==
    IF DynError_is(formatter, c, build)
    THEN [ok |-> TRUE, data |-> d, cat |-> c]
    ELSE [ok |-> FALSE, data |-> d, cat |-> formatter]

\* DynError::try_into::<C>()
TryInto(c) ==
    /\ kind = "DynError" /\ Running
    /\ LET r == DynError_try_into(data, cat, c, cfg)
       IN  IF r.ok
           THEN /\ kind' = "Error"
                /\ data' = r.data
                /\ cat' = r.cat
                /\ ret' = Returned
           ELSE /\ ret' = ReturnedErr("try_into", r.data, r.cat)
                /\ UNCHANGED <<kind, data, cat>>
    /\ UNCHANGED <<cfg, hist, panicked, iter>>

\* The conversion keeping the current code only, as From<C> does for a bare
\* code.
DynError_from_code(d, c) ==
    [error |-> ErrorData_new(code(d)), category_formatter |-> c]

\* impl From<Error<C>> for DynError:
\* DynError::from_raw_parts(error.into(), format_chained::<C>)
DynError_from(d, c) ==
    [error |-> d, category_formatter |-> c]

\* DynError::into_raw_parts
DynError_into_raw_parts(e) == <<e.error, e.category_formatter>>

\* impl PartialEq for Error<C>
Error_eq(d, other_d) == d = other_d

\* The categories that have values, and the values the program passes in:
\* TestError1::Err0, TestError2::Err1, both variants of TestError3 (which
\* links to itself), TestError::Bar and the only variant of the others.
Values == Categories \ {Unused}

Inputs(c) ==
    CASE c = "TestError1" -> {0}
      [] c = "TestError2" -> {1}
      [] c = "TestError" -> {2}
      [] OTHER -> Codes(c)

Next ==
    \/ \E c \in Values, k \in {"Error", "DynError"} : \E ec \in Inputs(c) : New(c, ec, k)
    \/ \E c \in Values, idx \in 0..5 : \E ec \in Inputs(c) : Chain(c, idx, ec)
    \/ \E old \in Values, c \in Values, idx \in 0..5 :
          \E oc \in Inputs(old), ec \in Inputs(c) : ChainConcrete(old, oc, c, idx, ec)
    \/ IntoDyn
    \/ \E c \in Values : \E ec \in Inputs(c) : TryChain(c, ec)
    \/ \E c \in Values : \E ec \in Inputs(c) : DynChain(c, ec)
    \/ \E c \in Values : TryInto(c)

Spec == Init /\ [][Next]_vars

-----------------------------------------------------------------------------
(* The program that works on a bare ErrorData: new, then push_front, chain    *)
(* and set_code with codes 0..15 and link indices 0..6.                       *)

InitData ==
    /\ cfg \in Builds
    /\ kind = "ErrorData"
    /\ \E ec \in RawCodes :
          /\ data = ErrorData_new(ec)
          /\ hist = <<Entry(ec, "raw", None)>>
    /\ cat = "raw"
    /\ ret = Returned
    /\ panicked = NoPanic
    /\ iter = NoIter

\* ErrorData::push_front(error_code, category_index)
PushFront(ec, idx) ==
    /\ kind = "ErrorData" /\ Running
    /\ Len(hist) <= MaxPushes
    /\ LET r == push_front(data, ec, idx, cfg.debug_assertions)
       IN  IF r.panic
           THEN /\ panicked' = <<AddOverflowMsg>>
                /\ ret' = Returned
                /\ UNCHANGED <<data, hist>>
           ELSE /\ data' = r.data
                /\ hist' = Pushed(hist, ec % 16, "raw", idx)
                /\ ret' = [op |-> "push_front", result |-> r.result]
                /\ UNCHANGED panicked
    /\ UNCHANGED <<cfg, kind, cat, iter>>

\* ErrorData::chain(error_code, category_index)
DataChain(ec, idx) ==
    /\ kind = "ErrorData" /\ Running
    /\ Len(hist) <= MaxPushes
    /\ LET r == ErrorData_chain(data, ec, idx, cfg)
       IN  IF r.panic # ""
           THEN /\ panicked' = <<r.panic>>
                /\ UNCHANGED <<data, hist>>
           ELSE /\ data' = r.data
                /\ hist' = Pushed(hist, ec % 16, "raw", idx)
                /\ UNCHANGED panicked
    /\ ret' = Returned
    /\ UNCHANGED <<cfg, kind, cat, iter>>

\* ErrorData::set_code(code)
SetCode(ec) ==
    /\ kind = "ErrorData" /\ Running
    /\ LET r == set_code(data, ec)
       IN  /\ data' = r.data
           /\ ret' = [op |-> "set_code", result |-> r.old]
    /\ hist' = <<[Head(hist) EXCEPT !.code = ec % 16]>> \o Tail(hist)
    /\ UNCHANGED <<cfg, kind, cat, panicked, iter>>

NextData ==
    \/ \E ec \in RawCodes, idx \in RawIndices : PushFront(ec, idx)
    \/ \E ec \in RawCodes, idx \in RawIndices : DataChain(ec, idx)
    \/ \E ec \in RawCodes : SetCode(ec)

SpecData == InitData /\ [][NextData]_vars

-----------------------------------------------------------------------------
(* The program that makes an ErrorData from any code 0..15 and replaces its   *)
(* current code.                                                              *)

AllCodes == 0..15

InitCodes ==
    /\ cfg \in Builds
    /\ kind = "none"
    /\ data = ZeroWord
    /\ cat = "raw"
    /\ hist = <<>>
    /\ ret = Returned
    /\ panicked = NoPanic
    /\ iter = NoIter

\* ErrorData::new(error_code)
DataNew(ec) ==
    /\ kind = "none" /\ Running
    /\ kind' = "ErrorData"
    /\ data' = ErrorData_new(ec)
    /\ hist' = <<Entry(ec, "raw", None)>>
    /\ ret' = Returned
    /\ UNCHANGED <<cfg, cat, panicked, iter>>

NextCodes ==
    \/ \E ec \in AllCodes : DataNew(ec)
    \/ \E ec \in AllCodes : SetCode(ec)

SpecCodes == InitCodes /\ [][NextCodes]_vars

-----------------------------------------------------------------------------
(* The documented bit layout (error_data.rs, the comment on ErrorData.data):  *)
(* bits 0..20 hold five 4-bit codes, bits 20..32 four 3-bit link fields.      *)

\* Bit p of the word.
BitAt(d, p) == BitOf(d[p \div 4], p % 4)

\* Code field k: 0 the current code, 1..4 the chained codes 0..3.
CodeAt(d, k) == BitAt(d, 4 * k) + 2 * BitAt(d, 4 * k + 1)
                    + 4 * BitAt(d, 4 * k + 2) + 8 * BitAt(d, 4 * k + 3)

\* Link field j (0..3): the formatter index + 1 of chained error j, 0 if absent.
LinkAt(d, j) == BitAt(d, 20 + 3 * j) + 2 * BitAt(d, 20 + 3 * j + 1)
                    + 4 * BitAt(d, 20 + 3 * j + 2)

Min(a, b) == IF a < b THEN a ELSE b

\* The entries still held by the record: the current code and the newest
\* ERROR_CHAIN_LEN codes chained before it.
Retained(h) == SubSeq(h, 1, Min(Len(h), ERROR_CHAIN_LEN + 1))

HasValue == kind \in {"Error", "DynError"}

\* The value is the one the last call returned: new, a chain operation or a
\* conversion that succeeded. (A refused or panicked call leaves the value
\* of the state before it.)
Built == HasValue /\ Running /\ ret = Returned

-----------------------------------------------------------------------------
(* Iteration *)

\* What iter() is to yield for a history: each code, newest first, with the
\* handle of the category it was given as.
ExpectedItems(h, build) ==
    [i \in 1..Len(h) |-> <<h[i].code, ErrorCategoryHandle_new(h[i].cat, build)>>]

\* The iterator after n calls of next.
RECURSIVE IterAfter(_, _, _)
IterAfter(it, n, build) ==
    IF n = 0 THEN it ELSE IterAfter(ErrorIter_next(it, build).iter, n - 1, build)

\* C1: an error built by new and k <= 4 linked chain operations (static chain,
\* try_chain or DynError's chain) iterates as its k+1 codes, newest first,
\* each paired with the handle of the category it was created with, and the
\* next call after them returns None.
IterationOrder ==
    (Built /\ Len(hist) - 1 <= ERROR_CHAIN_LEN) =>
        LET it == ErrorIter_new(data, cat)
        IN  /\ IterItems(it, cfg) = ExpectedItems(hist, cfg)
            /\ ErrorIter_next(IterAfter(it, Len(hist), cfg), cfg).item = None

\* A DynError with four chained codes of more than one category, iterated.
IterationOrderWitness ==
    /\ kind = "DynError"
    /\ Len(hist) = ERROR_CHAIN_LEN + 1
    /\ hist[1].cat # hist[2].cat
    /\ hist[2].cat = hist[3].cat
    /\ hist[2].code # hist[3].code
    /\ Len(IterItems(ErrorIter_new(data, cat), cfg)) = ERROR_CHAIN_LEN + 1

-----------------------------------------------------------------------------
(* Chain length *)

\* C2: without panic-on-overflow, after n chain operations on a fresh error
\* chain_len() is min(n, 4); once a fifth code has been chained the iteration
\* yields the current code and the four newest chained ones, and the oldest
\* code is gone.
ChainLenMonotone ==
    (Built /\ ~cfg.panic_on_overflow) =>
        /\ chain_len(data) = Min(Len(hist) - 1, ERROR_CHAIN_LEN)
        /\ Len(hist) - 1 > ERROR_CHAIN_LEN =>
              IterItems(ErrorIter_new(data, cat), cfg)
                  = ExpectedItems(Retained(hist), cfg)

\* Five chains made without the feature: the chain is full and the first
\* code is no longer among the five items.
ChainLenMonotoneWitness ==
    /\ HasValue /\ ~cfg.panic_on_overflow
    /\ Len(hist) = ERROR_CHAIN_LEN + 2
    /\ chain_len(data) = ERROR_CHAIN_LEN
    /\ Len(IterItems(ErrorIter_new(data, cat), cfg)) = ERROR_CHAIN_LEN + 1
    /\ \A i \in 1..(ERROR_CHAIN_LEN + 1) : hist[i].cat # hist[ERROR_CHAIN_LEN + 2].cat

-----------------------------------------------------------------------------
(* Overflow eviction *)

\* The items iter_chain yields for a history: each retained chained code with
\* the link index of the next older retained one.
ExpectedChainItems(h) ==
    LET n == Min(Len(h) - 1, ERROR_CHAIN_LEN)
    IN  [j \in 1..n |-> <<h[j + 1].code, IF j < n THEN h[j + 2].link ELSE None>>]

\* C3: push_front returns Some((code, link_index)) exactly when the chain was
\* full before the call; the pair is the code of chain slot 3 and that slot's
\* link index less the bias, which is the oldest chained code with the index
\* it was pushed with; after the call iter_chain yields the four newest
\* chained codes only.
OverflowEviction ==
    [][(kind = "ErrorData" /\ ret'.op = "push_front" /\ hist' # hist) =>
              /\ (ret'.result # None) <=> (chain_len(data) = ERROR_CHAIN_LEN)
              /\ chain_len(data) = ERROR_CHAIN_LEN =>
                    /\ ret'.result = Some(<<CodeAt(data, ERROR_CHAIN_LEN),
                                            LinkAt(data, ERROR_CHAIN_LEN - 1) - 1>>)
                    /\ ret'.result = Some(<<hist[ERROR_CHAIN_LEN + 1].code,
                                            hist[ERROR_CHAIN_LEN + 1].link[1]>>)
              /\ ChainItems(iter_chain(data')) = ExpectedChainItems(hist')
    ]_vars

\* The fifth push onto a record whose oldest chained code is 15, pushed with
\* link index 6, on top of codes 0: it returns (15, 6).
OverflowEvictionWitness ==
    /\ kind = "ErrorData" /\ ret.op = "push_front"
    /\ Len(hist) = ERROR_CHAIN_LEN + 2
    /\ hist[ERROR_CHAIN_LEN + 2] = Entry(15, "raw", Some(6))
    /\ hist[ERROR_CHAIN_LEN + 1] = Entry(0, "raw", Some(0))
    /\ ret.result = Some(<<15, 6>>)
    /\ Len(ChainItems(iter_chain(data))) = ERROR_CHAIN_LEN

-----------------------------------------------------------------------------
(* Static and dynamic chaining *)

\* Whether idx is the first position of category a in the links of c.
FirstLinkTo(c, idx, a) ==
    /\ Links(c)[idx + 1] = a
    /\ \A j \in 0..(idx - 1) : Links(c)[j + 1] # a

\* Whether chaining onto the record d overflows into a panic in this build.
OverflowPanics(d, build) ==
    build.panic_on_overflow /\ build.debug_assertions /\ chain_full(d)

\* C4 as stated: for every category A in B's link table, every Error<A>
\* built by new and chain and every code y of B, the static e.chain(y) and
\* DynError::from(e).try_chain(y) both succeed with bit-identical records.
StaticDynamicBitIdentical ==
    (Built /\ kind = "Error") =>
        \A c \in Values, idx \in 0..5 :
            Links(c)[idx + 1] = cat =>
                \A y \in Codes(c) :
                    LET static == ChainError_chain(data, c, idx, y, cfg)
                        dynamic == try_chain(data, cat, c, y, cfg)
                    IN  /\ static.panic = ""
                        /\ dynamic.ok /\ dynamic.panic = ""
                        /\ static.data = dynamic.data

\* C4: for every category A in B's link table, every Error<A> built by new
\* and chain and every code y of B, try_chain finds A, and the static chain
\* through the first position of A in B's links has the same outcome as
\* try_chain: bit-identical records, or the overflow panic in both when the
\* chain is full in a build with panic-on-overflow and debug assertions. The
\* static chain through a later position of A writes that position's index,
\* so its record differs from try_chain's in link field 0.
StaticDynamicEquivalence ==
    (Built /\ kind = "Error") =>
        \A c \in Values, idx \in 0..5 :
            Links(c)[idx + 1] = cat =>
                \A y \in Codes(c) :
                    LET static == ChainError_chain(data, c, idx, y, cfg)
                        dynamic == try_chain(data, cat, c, y, cfg)
                    IN  /\ dynamic.ok /\ dynamic.cat = c
                        /\ static.panic = dynamic.panic
                        /\ (static.panic # "") <=> OverflowPanics(data, cfg)
                        /\ (static.panic # "") => static.panic = OverflowMsg
                        /\ FirstLinkTo(c, idx, cat) => static.data = dynamic.data
                        /\ ~FirstLinkTo(c, idx, cat) =>
                              /\ static.data # dynamic.data
                              /\ LinkAt(static.data, 0) = idx + 1
                              /\ LinkAt(dynamic.data, 0) < idx + 1

\* An Error<TestError1> with a full chain in a build that does not panic on
\* overflow: both ways of chaining TestError3::Err0 evict the oldest code and
\* give the same record.
StaticDynamicEquivalenceWitness ==
    /\ kind = "Error" /\ cat = "TestError1"
    /\ chain_full(data) /\ ~OverflowPanics(data, cfg)
    /\ LET static == ChainError_chain(data, "TestError3", 1, 3, cfg)
           dynamic == try_chain(data, cat, "TestError3", 3, cfg)
       IN  /\ dynamic.ok /\ static.panic = "" /\ dynamic.panic = ""
           /\ static.data = dynamic.data
           /\ chain_full(static.data) /\ code(static.data) = 3
           /\ LinkAt(static.data, 0) = 2

-----------------------------------------------------------------------------
(* Unlinked rejection *)

\* Whether the formatter of category a is absent from the link table of c.
Unlinked(c, a) ==
    \A i \in 1..Len(chainable_category_formatters(c)) :
        chainable_category_formatters(c)[i] # a

\* C5: try_chain of a DynError whose category is not in the link table of the
\* new code's category returns Err with a DynError equal to the original
\* (same record, same formatter) and does not panic, at every chain length
\* and in every build; the Err a try_chain call returned holds the value the
\* program had.
UnlinkedRejection ==
    /\ kind = "DynError" =>
          \A c \in Values :
              Unlinked(c, cat) =>
                  \A y \in Codes(c) :
                      LET r == try_chain(data, cat, c, y, cfg)
                      IN  /\ ~r.ok /\ r.panic = ""
                          /\ DynError_eq(r.data, r.cat, data, cat)
    /\ (ret.op = "Err" /\ ret.by = "try_chain") =>
          /\ kind = "DynError" /\ panicked = NoPanic
          /\ DynError_eq(ret.error, ret.category_formatter, data, cat)
          /\ chain_len(ret.error) = Min(Len(hist) - 1, ERROR_CHAIN_LEN)

\* A try_chain that was refused on a full chain in the build that panics on
\* overflow.
UnlinkedRejectionWitness ==
    /\ ret.op = "Err" /\ ret.by = "try_chain"
    /\ cfg.panic_on_overflow /\ cfg.debug_assertions
    /\ chain_full(data) /\ chain_full(ret.error)
    /\ \E c \in Values : Unlinked(c, cat)

-----------------------------------------------------------------------------
(* Debug rendering *)

\* "{NAME}({code}): {variant debug text}" for one node of the iteration.
NodeLine(node) ==
    LET c == node[2].chainable_category_formatters
    IN  <<Handle_name(node[2]), "(", ToString(node[1]), "): ",
          DebugText(c, VariantNames(c)[node[1]])>>

\* The first node's line, then "\n- " and its line for every further node.
RECURSIVE ChainedLines(_)
ChainedLines(nodes) ==
    IF nodes = <<>> THEN <<>>
    ELSE <<"\n- ">> \o NodeLine(Head(nodes)) \o ChainedLines(Tail(nodes))

ExpectedText(nodes) == NodeLine(Head(nodes)) \o ChainedLines(Tail(nodes))

\* C6: the debug text of an error whose iteration yields n0, n1, .., nk is
\* the line "{NAME}({code}): {variant text}" of n0 followed, for n1..nk in
\* that order, by a newline, "- " and the line of that node; nothing precedes
\* the first line and nothing follows the last.
DebugFormat ==
    Built =>
        LET nodes == IterItems(ErrorIter_new(data, cat), cfg)
            r == DynError_fmt(data, cat, NewSink(-1), cfg)
        IN  /\ r.ok /\ r.panic = ""
            /\ r.f.out = ExpectedText(nodes)
            /\ Len(r.f.out) = 6 * Len(nodes) - 1

\* check_print of tests/error_attr.rs: OtherError::ExtremeFailure chained
\* with TestError::Bar.
DebugFormatWitness ==
    /\ HasValue /\ Len(hist) = 2
    /\ DynError_fmt(data, cat, NewSink(-1), cfg).f.out =
          << "optional name", "(", "2", "): ", "Some explanation",
             "\n- ", "OtherError", "(", "0", "): ", "ExtremeFailure" >>

-----------------------------------------------------------------------------
(* ErrorData::new *)

\* C7: ErrorData::new(code).code() = code for every code 0..15, and the new
\* record has an empty chain: chain_len() is 0, first_formatter_index() is
\* None and iter_chain yields nothing.
NewRoundTrip ==
    (kind = "ErrorData" /\ ret = Returned /\ Len(hist) = 1) =>
        /\ hist[1].code \in AllCodes
        /\ code(data) = hist[1].code
        /\ chain_len(data) = 0
        /\ first_formatter_index(data) = None
        /\ ChainItems(iter_chain(data)) = <<>>
        /\ ErrorDataChainIter_next(iter_chain(data)).item = None

\* ErrorData::new(15): the largest code comes back and the chain is empty.
NewRoundTripWitness ==
    /\ kind = "ErrorData" /\ ret = Returned /\ Len(hist) = 1
    /\ hist[1].code = 15 /\ code(data) = 15 /\ chain_len(data) = 0

-----------------------------------------------------------------------------
(* Category handles *)

-----------------------------------------------------------------------------
(* Membership queries *)

\* The positions of the retained entries of category t, newest first.
RetainedOf(h, t) == {i \in 1..Len(Retained(h)) : h[i].cat = t}

\* C9: caused_by(c), c of category T, is true exactly when a retained node
\* has category T and code c; code_of_category::<T>() is None exactly when no
\* retained node has category T and else the code of the newest such node.
\* Error<C> and DynError answer alike.
MembershipQueries ==
    Built =>
        \A t \in Values :
            LET at == RetainedOf(hist, t)
                found == code_of_category(data, cat, t, cfg)
            IN  /\ \A c \in Codes(t) :
                      caused_by(data, cat, t, c, cfg)
                          <=> \E i \in at : hist[i].code = c
                /\ found = None <=> at = {}
                /\ at # {} =>
                      found = Some(hist[CHOOSE i \in at : \A j \in at : i <= j].code)

\* Five chains onto a TestError2: its code was evicted, so the queries for
\* TestError2 find nothing, and the one for TestError3 finds the newest of
\* several TestError3 codes.
MembershipQueriesWitness ==
    /\ HasValue /\ Len(hist) = ERROR_CHAIN_LEN + 2
    /\ hist[ERROR_CHAIN_LEN + 2].cat = "TestError2"
    /\ RetainedOf(hist, "TestError2") = {}
    /\ ~caused_by(data, cat, "TestError2", hist[ERROR_CHAIN_LEN + 2].code, cfg)
    /\ code_of_category(data, cat, "TestError2", cfg) = None
    /\ \E i, j \in RetainedOf(hist, "TestError3") :
          /\ i < j /\ hist[i].code # hist[j].code
          /\ \A k \in RetainedOf(hist, "TestError3") : i <= k
          /\ code_of_category(data, cat, "TestError3", cfg) = Some(hist[i].code)
          /\ caused_by(data, cat, "TestError3", hist[j].code, cfg)

-----------------------------------------------------------------------------
(* The packed record *)

\* Whether the non-zero link fields of the word are its first chain_len()
\* fields, at most four.
Contiguous(d) ==
    /\ chain_len(d) \in 0..ERROR_CHAIN_LEN
    /\ \A j \in 0..(ERROR_CHAIN_LEN - 2) : LinkAt(d, j) = 0 => LinkAt(d, j + 1) = 0
    /\ chain_len(d)
          = Cardinality({j \in 0..(ERROR_CHAIN_LEN - 1) : LinkAt(d, j) # 0})

\* C10: in every record reached from ErrorData::new by push_front, chain and
\* set_code, the chain length is between 0 and 4 and the non-zero link
\* fields are contiguous from field 0: no zero field is followed by a
\* non-zero one, so chain_len() counts all of them; and a further push_front
\* with any link index 0..6 keeps it so.
PackedInvariant ==
    kind = "ErrorData" =>
        /\ Contiguous(data)
        /\ chain_len(data) = Min(Len(hist) - 1, ERROR_CHAIN_LEN)
        /\ ret = Returned =>
              \A idx \in 0..6 :
                  LET r == push_front(data, 9, idx, cfg.debug_assertions)
                  IN  /\ ~r.panic /\ Contiguous(r.data)
                      /\ LinkAt(r.data, 0) = idx + 1

\* A record that has evicted a code: all four link fields are present, with
\* both the smallest and the largest link index among them.
PackedInvariantWitness ==
    /\ kind = "ErrorData" /\ Len(hist) = ERROR_CHAIN_LEN + 2
    /\ chain_len(data) = ERROR_CHAIN_LEN
    /\ \A j \in 0..(ERROR_CHAIN_LEN - 1) : LinkAt(data, j) \in {1, 7}
    /\ LinkAt(data, 0) = 1 /\ LinkAt(data, 1) = 7 /\ LinkAt(data, 2) = 1

-----------------------------------------------------------------------------
(* Write failure during debug rendering *)

\* C11: when write number b + 1 of the rendering fails (a piece of a node's
\* line or the "\n- " before it), fmt returns the error and the sink holds
\* exactly the b pieces written before: nothing of a later node follows,
\* although the sink would take it. When no write fails fmt returns Ok with
\* the whole text.
WriteFailureStops ==
    (Built /\ kind = "DynError") =>
        LET full == DynError_fmt(data, cat, NewSink(-1), cfg).f.out
        IN  \A b \in 0..Len(full) :
                LET r == DynError_fmt(data, cat, NewSink(b), cfg)
                IN  /\ r.panic = ""
                    /\ r.ok <=> b = Len(full)
                    /\ r.f.out = SubSeq(full, 1, b)

\* An error of three nodes whose sink fails on the separator before the
\* second node, and one whose sink fails inside the second node's line.
WriteFailureStopsWitness ==
    /\ Built /\ kind = "DynError" /\ Len(hist) = 3
    /\ LET atsep == DynError_fmt(data, cat, NewSink(5), cfg)
           inline == DynError_fmt(data, cat, NewSink(8), cfg)
       IN  /\ ~atsep.ok /\ Len(atsep.f.out) = 5
           /\ ~inline.ok /\ Len(inline.f.out) = 8
           /\ inline.f.out[6] = "\n- "

-----------------------------------------------------------------------------
(* The strict overflow configuration *)

\* C12: with panic-on-overflow enabled, ErrorData::chain, the static chain
\* and try_chain on a linked category panic with the overflow message when
\* the chain of the record is already full, and do not panic when it is not;
\* so no value ever holds a fifth chained code's worth of history.
StrictOverflowPanics ==
    (Built /\ cfg.panic_on_overflow) =>
        /\ Len(hist) - 1 <= ERROR_CHAIN_LEN
        /\ \A c \in Values, idx \in 0..5 :
              Links(c)[idx + 1] = cat =>
                  \A y \in Codes(c) :
                      LET expected == IF chain_full(data) THEN OverflowMsg ELSE ""
                      IN  /\ ErrorData_chain(data, y, idx, cfg).panic = expected
                          /\ ChainError_chain(data, c, idx, y, cfg).panic = expected
                          /\ try_chain(data, cat, c, y, cfg).panic = expected

-----------------------------------------------------------------------------
(* DynError::chain *)

\* C13 as stated: DynError::chain panics exactly when try_chain returns Err.
ChainPanicsIffUnlinked ==
    (Built /\ kind = "DynError") =>
        \A c \in Values : \A y \in Inputs(c) :
            DynError_chain(data, cat, c, y, cfg).panic # <<>>
                <=> ~try_chain(data, cat, c, y, cfg).ok

\* C13: DynError::chain panics with "cannot chain unlinked error categories",
\* ": " and the debug text of the original error exactly when the link table
\* of the code's category does not hold the error's formatter, which is when
\* try_chain returns Err; when it does hold it, chain has the outcome of
\* try_chain: the same Error of the code's category, or the same overflow
\* panic on a full chain in the build that checks overflow.
ChainUnwrapsTryChain ==
    (Built /\ kind = "DynError") =>
        LET text == ExpectedText(IterItems(ErrorIter_new(data, cat), cfg))
        IN  \A c \in Values : \A y \in Inputs(c) :
                LET t == try_chain(data, cat, c, y, cfg)
                    r == DynError_chain(data, cat, c, y, cfg)
                IN  /\ ~t.ok <=> Unlinked(c, cat)
                    /\ ~t.ok <=> (r.panic # <<>> /\ r.panic[1] = UnlinkedMsg)
                    /\ ~t.ok => r.panic = <<UnlinkedMsg, ": ">> \o text
                    /\ t.ok =>
                          /\ r.panic = (IF t.panic = "" THEN <<>> ELSE <<t.panic>>)
                          /\ t.panic # "" <=> OverflowPanics(data, cfg)
                          /\ t.panic = "" =>
                                /\ r.ok /\ r.data = t.data /\ r.cat = t.cat
                                /\ r.cat = c /\ code(r.data) = y

\* As test_chain_panic of tests/dyn.rs, with the categories of
\* tests/error_attr.rs: TestError::Bar chained with a code of
\* OtherError has panicked.
ChainUnwrapsTryChainWitness ==
    /\ kind = "DynError" /\ Len(hist) = 1
    /\ panicked = << UnlinkedMsg, ": ",
                     "optional name", "(", "2", "): ", "Some explanation" >>

-----------------------------------------------------------------------------
(* The program that calls a category's dispatch function with any code, any   *)
(* link index and any sink.                                                   *)

\* next_formatter: None or Some(u8)
LinkArgs == {None} \cup {Some(i) : i \in {0, 1, 2, 5, 6, 7, 255}}

\* f: None, or a sink whose write number budget + 1 fails (-1: none fails)
SinkArgs == {None} \cup {Some(NewSink(b)) : b \in {-1, 0, 3, 5}}

InitFormat ==
    /\ cfg \in Builds
    /\ kind = "none"
    /\ data = ZeroWord
    /\ cat = "none"
    /\ hist = <<>>
    /\ ret = Returned
    /\ panicked = NoPanic
    /\ iter = NoIter

\* format_chained::<c>(ec, link, f)
FormatChained(c, ec, link, f) ==
    /\ kind = "none" /\ Running
    /\ kind' = "called"
    /\ LET r == format_chained(c, ec, link, f, cfg)
       IN  /\ ret' = [ op |-> "format_chained", c |-> c, error_code |-> ec,
                       next_formatter |-> link, f |-> f, result |-> r ]
           /\ panicked' = IF r.panic = "" THEN NoPanic ELSE <<r.panic>>
    /\ UNCHANGED <<cfg, data, cat, hist, iter>>

NextFormat ==
    \E c \in Categories, ec \in AllCodes, link \in LinkArgs, f \in SinkArgs :
        FormatChained(c, ec, link, f)

SpecFormat == InitFormat /\ [][NextFormat]_vars

-----------------------------------------------------------------------------
(* The program that calls push_front with any u8 arguments.                   *)

\* The most push_front calls with any u8 arguments made on one record.
MaxRawPushes == 3

\* error_code: u8 values below and above 16
U8Codes == {3, 250}

\* category_index: u8 values below, at and above 7, and the largest
U8Indices == {0, 6, 7, 8, 255}

InitRaw ==
    /\ cfg \in Builds
    /\ kind = "ErrorData"
    /\ \E ec \in RawCodes :
          /\ data = ErrorData_new(ec)
          /\ hist = <<Entry(ec, "raw", None)>>
    /\ cat = "raw"
    /\ ret = Returned
    /\ panicked = NoPanic
    /\ iter = NoIter

\* ErrorData::push_front(error_code, category_index), any u8 arguments
PushFrontRaw(ec, idx) ==
    /\ Len(hist) <= MaxRawPushes
    /\ PushFront(ec, idx)

NextRaw == \E ec \in U8Codes, idx \in U8Indices : PushFrontRaw(ec, idx)

SpecRaw == InitRaw /\ [][NextRaw]_vars

\* The link field a push_front with this category_index stores:
\* (category_index + 1) as u8, masked to three bits.
StoredField(idx) == ((idx + 1) % 256) % 8

\* Whether every push_front of the history stored a non-zero link field.
AllLinked(h) == \A i \in 2..Len(h) : StoredField(h[i].link[1]) # 0

\* The pair iter_chain yields for chain slot k (0..3) of the word.
SlotPair(d, k) ==
    << CodeAt(d, k + 1),
       IF k + 1 < ERROR_CHAIN_LEN /\ LinkAt(d, k + 1) # 0
       THEN Some(LinkAt(d, k + 1) - 1) ELSE None >>

\* One more than the last slot whose link field is not 0 (0 if there is none).
LastLinked(d) ==
    LET used == {j \in 0..(ERROR_CHAIN_LEN - 1) : LinkAt(d, j) # 0}
    IN  IF used = {} THEN 0 ELSE (CHOOSE j \in used : \A x \in used : x <= j) + 1

-----------------------------------------------------------------------------
(* iter_chain *)

-----------------------------------------------------------------------------
(* push_front argument masking *)

-----------------------------------------------------------------------------
(* DynError::try_into *)

-----------------------------------------------------------------------------
(* error.rs: ResultChainError, and the program that chains through Results.   *)

\* A Result<T, ERR>: Ok(val), or Err of a bare code, an Error<_> or a DynError.
ResOk(v) == [ok |-> TRUE, val |-> v]

ResErr(tag, d, a) == [ok |-> FALSE, tag |-> tag, data |-> d, cat |-> a]

\* The Error<C> a static chain returned, or its panic.
Chained(r, c) ==
    [ok |-> r.panic = "", data |-> r.data, cat |-> c,
     panic |-> IF r.panic = "" THEN <<>> ELSE <<r.panic>>]

\* ERR::chain(error_code) for the three kinds of ERR, as
\* [ok, data, cat, panic], ok telling that it returned.
Err_chain(res, c, idx, error_code, build) ==
    IF res.tag = "DynError"
    THEN DynError_chain(res.data, res.cat, c, error_code, build)
    ELSE Chained(ChainError_chain(res.data, c, idx, error_code, build), c)

\* chain_err that hands an Err on as it is.
chain_err_forward(res, c, idx, error_code, build) ==
    IF res.ok
    THEN [ok |-> TRUE, val |-> res.val]
    ELSE [ok |-> FALSE,
          err |-> [ok |-> TRUE, data |-> res.data, cat |-> res.cat, panic |-> <<>>]]

\* impl ResultChainError<OK, O, TAG> for Result<OK, ERR>: chain_err returns
\* Ok(val) or Err(err.chain(error_code))
chain_err(res, c, idx, error_code, build) ==
    IF res.ok
    THEN [ok |-> TRUE, val |-> res.val]
    ELSE [ok |-> FALSE, err |-> Err_chain(res, c, idx, error_code, build)]

\* The values an Ok holds.
OkValues == {0, 7}

CalledChainErr(res, c, idx, ec, r) ==
    [op |-> "chain_err", arg |-> res, c |-> c, idx |-> idx, error_code |-> ec,
     result |-> r]

\* Ok(v).chain_err(ec), on a fresh Ok or on the Ok a chain_err returned
ChainErrOk(v, c, ec) ==
    /\ kind \in {"none", "Ok"} /\ Running
    /\ kind = "Ok" => v = ret.result.val
    /\ kind' = "Ok"
    /\ ret' = CalledChainErr(ResOk(v), c, 0, ec, chain_err(ResOk(v), c, 0, ec, cfg))
    /\ UNCHANGED <<cfg, data, cat, hist, panicked, iter>>

\* Err(e).chain_err(ec), e the Error or DynError the program holds
ChainErr(c, idx, ec) ==
    /\ kind \in {"Error", "DynError"} /\ Running
    /\ kind = "Error" => Links(c)[idx + 1] = cat
    /\ kind = "DynError" => idx = 0
    /\ Len(hist) <= MaxChains
    /\ LET res == ResErr(kind, data, cat)
           r == chain_err(res, c, idx, ec, cfg)
       IN  /\ ret' = CalledChainErr(res, c, idx, ec, r)
           /\ IF ~r.err.ok
              THEN /\ panicked' = r.err.panic
                   /\ UNCHANGED <<kind, data, cat, hist>>
              ELSE /\ kind' = "Error"
                   /\ data' = r.err.data
                   /\ cat' = r.err.cat
                   /\ hist' = Pushed(hist, ec, c,
                                     IF kind = "Error" THEN idx
                                     ELSE FindFormatter(chainable_category_formatters(c),
                                                        cat, 0)[1])
                   /\ UNCHANGED panicked
    /\ UNCHANGED <<cfg, iter>>

\* Err(code).chain_err(ec), code a bare value of category old:
\* Error::new(code).chain(ec)
ChainErrConcrete(old, oc, c, idx, ec) ==
    /\ kind = "none" /\ Running
    /\ Links(c)[idx + 1] = old
    /\ LET res == ResErr("Concrete", ErrorData_new(oc), old)
           r == chain_err(res, c, idx, ec, cfg)
       IN  /\ ret' = CalledChainErr(res, c, idx, ec, r)
           /\ data' = r.err.data
           /\ cat' = r.err.cat
           /\ hist' = Pushed(<<Entry(oc, old, None)>>, ec, c, idx)
    /\ kind' = "Error"
    /\ UNCHANGED <<cfg, panicked, iter>>

NextResult ==
    \/ \E c \in Values, k \in {"Error", "DynError"} : \E ec \in Inputs(c) : New(c, ec, k)
    \/ IntoDyn
    \/ \E v \in OkValues, c \in Values : \E ec \in Inputs(c) : ChainErrOk(v, c, ec)
    \/ \E c \in Values, idx \in 0..5 : \E ec \in Inputs(c) : ChainErr(c, idx, ec)
    \/ \E old \in Values, c \in Values, idx \in 0..5 :
          \E oc \in Inputs(old), ec \in Inputs(c) : ChainErrConcrete(old, oc, c, idx, ec)

SpecResult == Init /\ [][NextResult]_vars

\* C18: chain_err on Ok(v) returns Ok(v) and chains nothing; on Err(e) it
\* returns Err of what e.chain(error_code) returns (and panics when that
\* panics), for e a bare code, an Error<_> or a DynError: the new error has
\* the given code in front and e's codes behind it.
ChainErrForwards ==
    ret.op = "chain_err" =>
        LET a == ret.arg
            r == ret.result
        IN  /\ a.ok =>
                  /\ r = [ok |-> TRUE, val |-> a.val]
                  /\ kind = "Ok" /\ hist = <<>> /\ data = ZeroWord
                  /\ panicked = NoPanic
            /\ ~a.ok =>
                  /\ ~r.ok
                  /\ a.tag \in {"Concrete", "Error"} =>
                        LET s == ChainError_chain(a.data, ret.c, ret.idx,
                                                  ret.error_code, cfg)
                        IN  /\ r.err.ok <=> s.panic = ""
                            /\ s.panic # "" => r.err.panic = <<s.panic>>
                            /\ s.panic = "" =>
                                  (r.err.data = s.data /\ r.err.cat = ret.c)
                  /\ a.tag = "DynError" =>
                        r.err = DynError_chain(a.data, a.cat, ret.c,
                                               ret.error_code, cfg)
                  /\ r.err.ok <=> r.err.panic = <<>>
                  /\ ~r.err.ok => panicked = r.err.panic
                  /\ r.err.ok =>
                        /\ kind = "Error" /\ data = r.err.data /\ cat = ret.c
                        /\ panicked = NoPanic
                        /\ hist[1] = Entry(ret.error_code, ret.c, None)
                        /\ code(data) = ret.error_code
                        /\ CodeAt(data, 1) = code(a.data)
                        /\ CodeAt(data, 1) = hist[2].code
                        /\ chain_len(data) = Min(Len(hist) - 1, ERROR_CHAIN_LEN)
                        /\ chain_len(data) = Min(chain_len(a.data) + 1, ERROR_CHAIN_LEN)

\* As gyro_acc_init and calibrate of examples/acc_gyro_errors.rs: a bare
\* code chained by chain_err, converted to a DynError and chained by
\* chain_err again.
ChainErrForwardsWitness ==
    /\ ret.op = "chain_err" /\ ret.arg.ok = FALSE /\ ret.arg.tag = "DynError"
    /\ ret.result.err.ok /\ kind = "Error" /\ Len(hist) = 3
    /\ hist[3].cat = "OtherError" /\ hist[2].cat = "TestError"
    /\ hist[1].cat = "SeperateError"

-----------------------------------------------------------------------------
(* End to end: new, chain, debug text *)

\* The link table [a, Unused, Unused, Unused, Unused, Unused].
OnlyLink(a) == <<a, Unused, Unused, Unused, Unused, Unused>>

\* Whether the category renders each variant as its name.
RendersNames(c) == \A x \in Codes(c) : DebugText(c, VariantNames(c)[x]) = VariantNames(c)[x]

\* "Y(y): Vy\n- X(x): Vx" as the pieces written.
TwoLines(y, ey, x, ex) ==
    << NAME(y), "(", ToString(ey), "): ", VariantNames(y)[ey], "\n- ",
       NAME(x), "(", ToString(ex), "): ", VariantNames(x)[ex] >>

\* C19 as stated: from Error::new of a code of X, where the link table of X
\* is [Y, Unused, ..], chaining a code of Y succeeds and the debug text is
\* "Y(y): Vy\n- X(x): Vx".
ScenarioLinkedFromX ==
    (Built /\ Len(hist) = 1) =>
        \A y \in Values :
            (Links(cat) = OnlyLink(y) /\ RendersNames(cat) /\ RendersNames(y)) =>
                \A ey \in Codes(y) :
                    LET r == try_chain(data, cat, y, ey, cfg)
                    IN  /\ r.ok /\ r.panic = ""
                        /\ DynError_fmt(r.data, r.cat, NewSink(-1), cfg).f.out
                              = TwoLines(y, ey, cat, hist[1].code)

\* C19: from Error::new of a code of X (X::Err0, code 0), where the link
\* table of Y is [X, Unused, Unused, Unused, Unused, Unused], chaining a code
\* of Y (Y::Err1, code 1) succeeds, statically and through DynError, and the
\* debug text of the result is exactly "Y(1): Err1\n- X(0): Err0", each
\* category rendering a variant as its name. The link table of X plays no
\* part: when Y's table does not hold X, try_chain refuses and chain panics.
EndToEndScenario ==
    (Built /\ Len(hist) = 1) =>
        \A y \in Values :
            /\ (Links(y) = OnlyLink(cat) /\ RendersNames(cat) /\ RendersNames(y)) =>
                  \A ey \in Codes(y) :
                      LET s == ChainError_chain(data, y, 0, ey, cfg)
                          r == try_chain(data, cat, y, ey, cfg)
                          text == TwoLines(y, ey, cat, hist[1].code)
                      IN  /\ s.panic = "" /\ r.ok /\ r.panic = ""
                          /\ r.data = s.data /\ r.cat = y
                          /\ DynError_fmt(s.data, y, NewSink(-1), cfg).ok
                          /\ DynError_fmt(s.data, y, NewSink(-1), cfg).f.out = text
                          /\ DynError_fmt(r.data, r.cat, NewSink(-1), cfg).f.out = text
            /\ Unlinked(y, cat) =>
                  \A ey \in Codes(y) :
                      /\ ~try_chain(data, cat, y, ey, cfg).ok
                      /\ DynError_chain(data, cat, y, ey, cfg).panic # <<>>

\* Error::new(TestError1::Err0).chain(TestError2::Err1) of tests/chain.rs,
\* TestError2 having the link table [TestError1, Unused, ..] and both the
\* NAME "ErrorCategory".
EndToEndScenarioWitness ==
    /\ Built /\ kind = "Error" /\ Len(hist) = 2
    /\ hist[2] = Entry(0, "TestError1", Some(0))
    /\ hist[1] = Entry(1, "TestError2", None)
    /\ Links("TestError2") = OnlyLink("TestError1")
    /\ DynError_fmt(data, cat, NewSink(-1), cfg).f.out
          = << "ErrorCategory", "(", "1", "): ", "Err1", "\n- ",
               "ErrorCategory", "(", "0", "): ", "Err0" >>

-----------------------------------------------------------------------------
(* macros/src/error_category.rs: the doc comments of a variant. A line is a   *)
(* sequence of characters, " " standing for whitespace and "x" for any other. *)

\* The most doc-comment lines on one variant.
MaxDocLines == 4

\* The lines: empty, whitespace only, text, and text with whitespace around it.
DocLines ==
    { <<>>, <<" ">>, <<"x">>, <<" ", " ">>, <<" ", "x">>, <<"x", " ">>, <<"x", "x">> }

DocComments == UNION {[1..n -> DocLines] : n \in 0..MaxDocLines}

RECURSIVE TrimStart(_)
TrimStart(line) ==
    IF line # <<>> /\ Head(line) = " " THEN TrimStart(Tail(line)) ELSE line

RECURSIVE TrimEnd(_)
TrimEnd(line) ==
    IF line # <<>> /\ line[Len(line)] = " "
    THEN TrimEnd(SubSeq(line, 1, Len(line) - 1)) ELSE line

\* str::trim
Trim(line) == TrimEnd(TrimStart(line))

\* [String]::join(sep)
RECURSIVE Join(_, _)
Join(lines, sep) ==
    IF lines = <<>> THEN <<>>
    ELSE IF Len(lines) = 1 THEN Head(lines)
    ELSE Head(lines) \o <<sep>> \o Join(Tail(lines), sep)

\* ErrorVariant::parse_doc_comment of a one-line comment: the first character
\* is removed if it is whitespace
parse_doc_comment(comment) ==
    IF comment # <<>> /\ Head(comment) = " " THEN Tail(comment) ELSE comment

\* .skip_while(|doc_line| doc_line.trim().is_empty())
RECURSIVE SkipWhileEmpty(_)
SkipWhileEmpty(lines) ==
    IF lines # <<>> /\ Trim(Head(lines)) = <<>>
    THEN SkipWhileEmpty(Tail(lines)) ELSE lines

\* ErrorVariant::parse_doc_comment_sections: the new state and the
\* Option<(bool, String)> it returns
parse_doc_comment_sections(state, line) ==
    CASE state = "Summary" /\ Trim(line) = <<>> ->
            [state |-> "EmptyLines", item |-> Some(<<FALSE, <<>> >>)]
      [] state = "Summary" /\ Trim(line) # <<>> ->
            [state |-> "Summary", item |-> Some(<<TRUE, line>>)]
      [] state = "EmptyLines" /\ Trim(line) # <<>> ->
            [state |-> "Details", item |-> Some(<<FALSE, line>>)]
      [] state = "EmptyLines" /\ Trim(line) = <<>> ->
            [state |-> "EmptyLines", item |-> None]
      [] OTHER ->
            [state |-> "Details", item |-> Some(<<FALSE, line>>)]

\* Iterator::scan(state, parse_doc_comment_sections) read to its end: the
\* iteration ends at the end of the lines or when the closure returns None.
RECURSIVE Scan(_, _)
Scan(state, lines) ==
    IF lines = <<>> THEN <<>>
    ELSE LET r == parse_doc_comment_sections(state, Head(lines))
         IN  IF r.item = None THEN <<>>
             ELSE <<r.item[1]>> \o Scan(r.state, Tail(lines))

\* .by_ref().take_while(|(is_summary, _)| *is_summary): the items taken and
\* the items left in the iterator, the first refused item being consumed.
RECURSIVE TakeWhileSummary(_)
TakeWhileSummary(items) ==
    IF items = <<>> THEN [taken |-> <<>>, rest |-> <<>>]
    ELSE IF ~Head(items)[1] THEN [taken |-> <<>>, rest |-> Tail(items)]
    ELSE LET t == TakeWhileSummary(Tail(items))
         IN  [taken |-> <<Head(items)>> \o t.taken, rest |-> t.rest]

\* ErrorVariant::parse: (summary, details) of the doc comments of a variant
ParseDoc(comments) ==
    LET lines == [i \in 1..Len(comments) |-> parse_doc_comment(comments[i])]
        doc_comments == Scan("Summary", SkipWhileEmpty(lines))
        parts == TakeWhileSummary(doc_comments)
        summary == Join([i \in 1..Len(parts.taken) |-> Trim(parts.taken[i][2])], " ")
        details_lines == [i \in 1..Len(parts.rest) |-> parts.rest[i][2]]
    IN  [ summary |-> IF Trim(summary) = <<>> THEN <<>> ELSE summary,
          details |-> IF \A i \in 1..Len(details_lines) : Trim(details_lines[i]) = <<>>
                      THEN <<>> ELSE Join(details_lines, "\n") ]

\* The derive macro runs in the compiler; the build of the crate plays no part.
InitDoc ==
    /\ cfg = Profile(FALSE, TRUE)
    /\ kind = "none"
    /\ data = ZeroWord
    /\ cat = "none"
    /\ hist = <<>>
    /\ ret = Returned
    /\ panicked = NoPanic
    /\ iter = NoIter

\* ErrorVariant::parse of a variant with these doc comments
ParseVariant(comments) ==
    /\ kind = "none"
    /\ kind' = "parsed"
    /\ ret' = [op |-> "parse", doc |-> comments, sections |-> ParseDoc(comments)]
    /\ UNCHANGED <<cfg, data, cat, hist, panicked, iter>>

NextDoc == \E comments \in DocComments : ParseVariant(comments)

SpecDoc == InitDoc /\ [][NextDoc]_vars

\* The position of the first line at or after position i that is empty (or,
\* with empty = FALSE, not empty), Len + 1 if there is none.
RECURSIVE FirstLine(_, _, _)
FirstLine(lines, i, empty) ==
    IF i > Len(lines) THEN i
    ELSE IF (Trim(lines[i]) = <<>>) = empty THEN i
    ELSE FirstLine(lines, i + 1, empty)

\* C20: after the leading empty lines are skipped, the summary is the run of
\* non-empty lines up to the first empty line or the end, each trimmed and
\* joined with one space; the details are all lines from the first non-empty
\* line after the summary to the end, however many empty lines (one or more)
\* lie between the summary and the details.
DocSections ==
    ret.op = "parse" =>
        LET stripped == [i \in 1..Len(ret.doc) |-> parse_doc_comment(ret.doc[i])]
            first == FirstLine(stripped, 1, FALSE)
            gap == FirstLine(stripped, first, TRUE)
            start == FirstLine(stripped, gap, FALSE)
        IN  /\ ret.sections.summary
                  = Join([i \in 1..(gap - first) |-> Trim(stripped[first + i - 1])], " ")
            /\ ret.sections.details
                  = Join(SubSeq(stripped, start, Len(stripped)), "\n")

\* What parse returns: the sections above when at most one empty line lies
\* between the summary and the next non-empty line, and no details at all
\* when two or more do, the scan having ended at the second empty line.
DocSectionsAsParsed ==
    ret.op = "parse" =>
        LET stripped == [i \in 1..Len(ret.doc) |-> parse_doc_comment(ret.doc[i])]
            first == FirstLine(stripped, 1, FALSE)
            gap == FirstLine(stripped, first, TRUE)
            start == FirstLine(stripped, gap, FALSE)
        IN  /\ ret.sections.summary
                  = Join([i \in 1..(gap - first) |-> Trim(stripped[first + i - 1])], " ")
            /\ ret.sections.details
                  = IF start - gap <= 1
                    THEN Join(SubSeq(stripped, start, Len(stripped)), "\n")
                    ELSE <<>>

-----------------------------------------------------------------------------
(* macros/src/str_placeholder.rs and the derive of Debug. A string is a       *)
(* sequence of pieces: "{", "}", " ", a placeholder word, or other text.      *)

FMT_PLACEHOLDER_SUMMARY == "summary"

FMT_PLACEHOLDER_DETAILS == "details"

FMT_PLACEHOLDER_VARIANT == "variant"

FMT_PLACEHOLDER_CATEGORY == "category"

FMT_PLACEHOLDER_DELIM_L == "{"

FMT_PLACEHOLDER_DELIM_R == "}"

\* is_delimited: at least one delimiter, and an odd number of them
is_delimited(n) == n > 0 /\ n % 2 # 0

\* .take_while(|c| *c == delim).count()
RECURSIVE CountWhile(_, _)
CountWhile(s, delim) ==
    IF s # <<>> /\ Head(s) = delim THEN 1 + CountWhile(Tail(s), delim) ELSE 0

\* .chars().rev()
Rev(s) == [i \in 1..Len(s) |-> s[Len(s) - i + 1]]

\* str::find(placeholder): the position of its first occurrence, from 0
RECURSIVE StrFind(_, _, _)
StrFind(s, placeholder, i) ==
    IF i >= Len(s) THEN None
    ELSE IF s[i + 1] = placeholder THEN Some(i)
    ELSE StrFind(s, placeholder, i + 1)

\* StrPlaceholderRangeIter::next_range: the range start..end of the first
\* placeholder with an odd number of delimiters on either side, the innermost
\* delimiters included.
RECURSIVE next_range(_, _, _)
next_range(string, placeholder, offset) ==
    LET found == StrFind(string, placeholder, 0)
    IN  IF found = None THEN None
        ELSE LET start_index == found[1]
                 is_left_delim ==
                     is_delimited(CountWhile(Rev(SubSeq(string, 1, start_index)),
                                             FMT_PLACEHOLDER_DELIM_L))
                 end_index == start_index + 1
                 is_right_delim ==
                     is_delimited(CountWhile(SubSeq(string, end_index + 1, Len(string)),
                                             FMT_PLACEHOLDER_DELIM_R))
             IN  IF is_left_delim /\ is_right_delim
                 THEN Some(<<start_index - 1 + offset, end_index + 1 + offset>>)
                 ELSE next_range(SubSeq(string, end_index + 1, Len(string)),
                                 placeholder, offset + end_index)

\* first_placeholder_range
first_placeholder_range(string, placeholder) == next_range(string, placeholder, 0)

\* The while loop of replace_all_placeholders, searching from next_range.start.
RECURSIVE ReplaceFrom(_, _, _, _)
ReplaceFrom(string, placeholder, replace_with, start) ==
    LET range == next_range(SubSeq(string, start + 1, Len(string)), placeholder, 0)
    IN  IF range = None THEN string
        ELSE LET from == range[1][1] + start
                 to == range[1][2] + start
                 replaced == SubSeq(string, 1, from) \o replace_with
                                 \o SubSeq(string, to + 1, Len(string))
             IN  ReplaceFrom(replaced, placeholder, replace_with,
                             from + Len(replace_with))

\* replace_all_placeholders
replace_all_placeholders(string, placeholder, replace_with) ==
    ReplaceFrom(string, placeholder, replace_with, 0)

\* ErrorVariantAttr::parse of #[error(format_str, format_args..)]
ErrorVariantAttr_parse(format_str, format_args) ==
    [ format_str |-> format_str,
      format_args |-> format_args,
      doc_comment_placeholder |->
          \/ first_placeholder_range(format_str, FMT_PLACEHOLDER_SUMMARY) # None
          \/ first_placeholder_range(format_str, FMT_PLACEHOLDER_DETAILS) # None ]

\* ErrorVariant::parse: the doc comments are read only when there is no
\* attribute or its format string names the summary or the details
ErrorVariant_parse(variant_name, error_attr, comments) ==
    LET parse_doc_comments ==
            IF error_attr = None THEN TRUE ELSE error_attr[1].doc_comment_placeholder
        sections == IF parse_doc_comments THEN ParseDoc(comments)
                    ELSE [summary |-> <<>>, details |-> <<>>]
    IN  [ error_attr |-> error_attr, format_str |-> None,
          doc_summary |-> sections.summary, doc_details |-> sections.details,
          variant_name |-> variant_name ]

\* derive_error_category, the loop "replace placeholders in format string":
\* v.format_str afterwards
VariantFormatStr(v, name_str) ==
    IF v.error_attr = None /\ v.doc_summary = <<>> THEN None
    ELSE LET format_str == IF v.error_attr # None THEN v.error_attr[1].format_str
                           ELSE v.doc_summary
             doc_comments_placeholder ==
                 IF v.error_attr # None THEN v.error_attr[1].doc_comment_placeholder
                 ELSE TRUE
             with_summary ==
                 IF doc_comments_placeholder
                 THEN replace_all_placeholders(format_str, FMT_PLACEHOLDER_SUMMARY,
                                               v.doc_summary)
                 ELSE format_str
             with_details ==
                 IF doc_comments_placeholder
                 THEN replace_all_placeholders(with_summary, FMT_PLACEHOLDER_DETAILS,
                                               v.doc_details)
                 ELSE with_summary
             with_category ==
                 replace_all_placeholders(with_details, FMT_PLACEHOLDER_CATEGORY,
                                          <<name_str>>)
         IN  Some(replace_all_placeholders(with_category, FMT_PLACEHOLDER_VARIANT,
                                           <<v.variant_name>>))

\* The text of a write that the compiler accepted, or its refusal.
Written(out) == [ok |-> TRUE, out |-> out]

Refused == [ok |-> FALSE, out |-> <<>>]

Prepend(piece, w) == IF w.ok THEN Written(<<piece>> \o w.out) ELSE w

\* core::write!(f, format_str, format_args..): "{{" and "}}" write one brace,
\* "{}" writes the next argument; any other brace, a missing argument and an
\* argument left over are refused by the compiler.
RECURSIVE core_write(_, _)
core_write(format_str, format_args) ==
    IF format_str = <<>>
    THEN IF format_args = <<>> THEN Written(<<>>) ELSE Refused
    ELSE IF Head(format_str) \notin {"{", "}"}
    THEN Prepend(Head(format_str), core_write(Tail(format_str), format_args))
    ELSE IF Len(format_str) >= 2 /\ format_str[2] = format_str[1]
    THEN Prepend(Head(format_str),
                 core_write(SubSeq(format_str, 3, Len(format_str)), format_args))
    ELSE IF Len(format_str) >= 2 /\ format_str[1] = "{" /\ format_str[2] = "}"
                /\ format_args # <<>>
    THEN Prepend(Head(format_args),
                 core_write(SubSeq(format_str, 3, Len(format_str)), Tail(format_args)))
    ELSE Refused

\* derive_error_category, fmt_debug_impl: the match arm of the variant
fmt_debug_impl(v, format_str) ==
    IF format_str # None /\ v.error_attr # None /\ v.error_attr[1].format_args # <<>>
    THEN core_write(format_str[1], v.error_attr[1].format_args)
    ELSE IF format_str # None THEN core_write(format_str[1], <<>>)
    ELSE core_write(<<v.variant_name>>, <<>>)

\* The doc-comment lines of the derived enums: empty, text, text in
\* whitespace, and lines with braces.
DeriveDocLines ==
    { <<>>, <<"x">>, <<" ", "y", " ">>, <<"{", "variant", "}">>,
      <<"x", "{", "{">>, <<"{", "}">> }

DeriveDocComments == UNION {[1..n -> DeriveDocLines] : n \in 0..MaxDocLines}

\* The #[error(..)] attributes: none, and format strings without and with
\* placeholders, escaped braces and arguments.
ErrorAttrs ==
    {None} \cup
    { Some(ErrorVariantAttr_parse(a[1], a[2])) :
        a \in { << <<>>, <<>> >>,
                << <<"fmt">>, <<>> >>,
                << <<"{", "summary", "}", ",", "{", "details", "}">>, <<>> >>,
                << <<"{", "variant", "}", ",", "{", "category", "}">>, <<>> >>,
                << <<"{", "{", "variant", "}", "}">>, <<>> >>,
                << <<"fmt", "{", "}">>, <<"arg">> >> } }

\* #[derive(ErrorCategory)] on an enum named Cat with the variant Foo,
\* and the Debug text of Cat::Foo
DeriveVariant(error_attr, comments) ==
    /\ kind = "none"
    /\ kind' = "derived"
    /\ LET v == ErrorVariant_parse("Foo", error_attr, comments)
           format_str == VariantFormatStr(v, "Cat")
       IN  ret' = [ op |-> "derive", error_attr |-> error_attr, doc |-> comments,
                    variant |-> v, format_str |-> format_str,
                    rendered |-> fmt_debug_impl(v, format_str) ]
    /\ UNCHANGED <<cfg, data, cat, hist, panicked, iter>>

NextDerive ==
    \E error_attr \in ErrorAttrs, comments \in DeriveDocComments :
        DeriveVariant(error_attr, comments)

SpecDerive == InitDoc /\ [][NextDerive]_vars

\* Each placeholder replaced by its text, the pieces of the text taken as
\* they are and a doubled brace left as it is.
RECURSIVE Filled(_, _)
Filled(format_str, texts) ==
    IF format_str = <<>> THEN <<>>
    ELSE IF Len(format_str) >= 2 /\ format_str[1] \in {"{", "}"}
                /\ format_str[2] = format_str[1]
    THEN SubSeq(format_str, 1, 2) \o Filled(SubSeq(format_str, 3, Len(format_str)), texts)
    ELSE IF Len(format_str) >= 3 /\ format_str[1] = "{" /\ format_str[3] = "}"
                /\ format_str[2] \in DOMAIN texts
    THEN texts[format_str[2]] \o Filled(SubSeq(format_str, 4, Len(format_str)), texts)
    ELSE <<Head(format_str)>> \o Filled(Tail(format_str), texts)

HasBrace(s) == \E i \in 1..Len(s) : s[i] \in {"{", "}"}

\* C21: the Debug text of a derived variant, whenever the derived code
\* compiles: with an #[error(..)] attribute it is the attribute's format
\* string with the placeholders replaced (by the summary, the details, the
\* category name and the variant name); without the attribute and with a
\* non-empty doc summary it is the summary; with neither it is the variant
\* name.
RenderingChoice ==
    (ret.op = "derive" /\ ret.rendered.ok) =>
        LET doc == ParseDoc(ret.doc)
            texts == [p \in {"summary", "details", "category", "variant"} |->
                         CASE p = "summary" -> doc.summary
                           [] p = "details" -> doc.details
                           [] p = "category" -> <<"Cat">>
                           [] OTHER -> <<"Foo">>]
        IN  /\ (ret.error_attr # None /\ ret.error_attr[1].format_args = <<>>
                    /\ ~HasBrace(doc.summary \o doc.details)) =>
                  ret.rendered.out
                      = core_write(Filled(ret.error_attr[1].format_str, texts), <<>>).out
            /\ (ret.error_attr = None /\ doc.summary # <<>>) =>
                  ret.rendered.out = doc.summary
            /\ (ret.error_attr = None /\ doc.summary = <<>>) =>
                  ret.rendered.out = <<"Foo">>

\* What the derived code writes: the summary of a variant without attribute
\* is used as a format string, so its placeholders are replaced and its
\* doubled braces written once; a summary without braces is written as it is.
RenderingAsDerived ==
    (ret.op = "derive" /\ ret.rendered.ok) =>
        LET doc == ParseDoc(ret.doc)
            texts == [p \in {"summary", "details", "category", "variant"} |->
                         CASE p = "summary" -> doc.summary
                           [] p = "details" -> doc.details
                           [] p = "category" -> <<"Cat">>
                           [] OTHER -> <<"Foo">>]
        IN  /\ (ret.error_attr # None /\ ret.error_attr[1].format_args = <<>>
                    /\ ~HasBrace(doc.summary \o doc.details)) =>
                  ret.rendered.out
                      = core_write(Filled(ret.error_attr[1].format_str, texts), <<>>).out
            /\ (ret.error_attr = None /\ doc.summary # <<>>
                    /\ ~HasBrace(doc.summary)) =>
                  ret.rendered.out = doc.summary
            /\ (ret.error_attr = None /\ doc.summary = <<>>) =>
                  ret.rendered.out = <<"Foo">>

-----------------------------------------------------------------------------
(* The program that pushes codes onto a bare ErrorData in the default         *)
(* configuration (the feature panic-on-overflow off).                         *)

\* error_code: all bits clear and all bits set
QueueCodes == {0, 15}

\* category_index: the stored fields 001 and 111
QueueIndices == {0, 6}

InitQueue ==
    /\ cfg \in {Profile(FALSE, dev) : dev \in BOOLEAN}
    /\ kind = "ErrorData"
    /\ \E ec \in QueueCodes :
          /\ data = ErrorData_new(ec)
          /\ hist = <<Entry(ec, "raw", None)>>
    /\ cat = "raw"
    /\ ret = Returned
    /\ panicked = NoPanic
    /\ iter = NoIter

NextQueue == \E ec \in QueueCodes, idx \in QueueIndices : PushFront(ec, idx)

SpecQueue == InitQueue /\ [][NextQueue]_vars

\* The word that packs a history: code field k holds the code of retained
\* entry k, link field j the link index + 1 of retained chained entry j, and
\* every other field is 0.
Packs(d, h) ==
    LET kept == Retained(h)
    IN  /\ \A k \in 0..ERROR_CHAIN_LEN :
              CodeAt(d, k) = IF k < Len(kept) THEN kept[k + 1].code ELSE 0
        /\ \A j \in 0..(ERROR_CHAIN_LEN - 1) :
              LinkAt(d, j) = IF j + 1 < Len(kept) THEN kept[j + 2].link[1] + 1 ELSE 0

\* C22: after any sequence of push_front calls (codes 0..15, link indices
\* 0..6, default configuration) on ErrorData::new(c0), the 32 bits of the
\* word are exactly the packing of the abstract queue: the current code is
\* the last pushed one, the chain holds the codes that were current before,
\* newest first, each with the link index it was pushed down with, cut to
\* the 4 newest. One more push with any code and any link index moves code
\* field k to field k + 1 and link field j to field j + 1, puts the new code
\* and link index in front and drops the last slot only, which it returns
\* when the chain was full; so no code bit reaches a link field and no link
\* bit a code field.
QueueRefinement ==
    (kind = "ErrorData" /\ Running) =>
        /\ Packs(data, hist)
        /\ code(data) = hist[1].code
        /\ chain_len(data) = Min(Len(hist) - 1, ERROR_CHAIN_LEN)
        /\ ChainItems(iter_chain(data)) = ExpectedChainItems(hist)
        /\ \A ec \in AllCodes, idx \in 0..6 :
              LET r == push_front(data, ec, idx, cfg.debug_assertions)
              IN  /\ ~r.panic
                  /\ CodeAt(r.data, 0) = ec /\ LinkAt(r.data, 0) = idx + 1
                  /\ \A k \in 0..(ERROR_CHAIN_LEN - 1) :
                        CodeAt(r.data, k + 1) = CodeAt(data, k)
                  /\ \A j \in 0..(ERROR_CHAIN_LEN - 2) :
                        LinkAt(r.data, j + 1) = LinkAt(data, j)
                  /\ r.result = IF Len(hist) - 1 >= ERROR_CHAIN_LEN
                                THEN Some(<<hist[ERROR_CHAIN_LEN + 1].code,
                                            hist[ERROR_CHAIN_LEN + 1].link[1]>>)
                                ELSE None

\* Five pushes have been made, so one code was dropped: the last code field
\* is all ones next to a first link field of 001, and the last link field is
\* 111 at the top of the word.
QueueRefinementWitness ==
    /\ kind = "ErrorData" /\ Running /\ Len(hist) = ERROR_CHAIN_LEN + 2
    /\ ret.op = "push_front" /\ ret.result # None
    /\ CodeAt(data, ERROR_CHAIN_LEN) = 15 /\ LinkAt(data, 0) = 1
    /\ CodeAt(data, 0) = 0
    /\ LinkAt(data, ERROR_CHAIN_LEN - 1) = 7
    /\ data[7] = 14

-----------------------------------------------------------------------------
(* The program that builds an error by new, the static chain and try_chain.   *)

NextChains ==
    \/ \E c \in Values, k \in {"Error", "DynError"} : \E ec \in Inputs(c) : New(c, ec, k)
    \/ \E c \in Values, idx \in 0..5 : \E ec \in Inputs(c) : Chain(c, idx, ec)
    \/ \E old \in Values, c \in Values, idx \in 0..5 :
          \E oc \in Inputs(old), ec \in Inputs(c) : ChainConcrete(old, oc, c, idx, ec)
    \/ IntoDyn
    \/ \E c \in Values : \E ec \in Inputs(c) : TryChain(c, ec)

SpecChains == Init /\ [][NextChains]_vars

\* C23: in every Error or DynError built from new by successful static chain
\* and try_chain operations, of any length (in the default configuration
\* also past the point where the oldest code is evicted) and also with a
\* category that links to itself, the link index stored at chain slot k is a
\* valid index into the link table of the category of node k, and that entry
\* of the table is the dispatch function of the category that produced node
\* k + 1; so iter() yields exactly 1 + chain_len() items, node by node the
\* retained codes with the handles of their categories.
LinkValidity ==
    Built =>
        LET n == chain_len(data)
            items == IterItems(ErrorIter_new(data, cat), cfg)
        IN  /\ n = Min(Len(hist) - 1, ERROR_CHAIN_LEN)
            /\ \A k \in 0..(n - 1) :
                  LET table == chainable_category_formatters(hist[k + 1].cat)
                      idx == LinkAt(data, k) - 1
                  IN  /\ idx >= 0 /\ idx < Len(table)
                      /\ table[idx + 1] = hist[k + 2].cat
                      /\ idx = hist[k + 2].link[1]
            /\ Len(items) = 1 + n
            /\ items = ExpectedItems(Retained(hist), cfg)

\* Five chains in the default configuration, the two newest codes both of
\* TestError3, which links to itself at index 0: the oldest code is gone and
\* iter() yields five items.
LinkValidityWitness ==
    /\ Built /\ ~cfg.panic_on_overflow
    /\ Len(hist) = ERROR_CHAIN_LEN + 2
    /\ hist[1].cat = "TestError3" /\ hist[2].cat = "TestError3"
    /\ LinkAt(data, 0) = 1
    /\ \E k \in 1..(ERROR_CHAIN_LEN - 1) : LinkAt(data, k) > 1
    /\ Len(IterItems(ErrorIter_new(data, cat), cfg)) = ERROR_CHAIN_LEN + 1

-----------------------------------------------------------------------------
(* The program that builds a record by new and push_front with link indices   *)
(* of its own choice, makes a DynError of it with from_raw_parts and any      *)
(* dispatch function, and calls next on its iterator.                         *)

\* The most push_front calls made on the record before it is iterated.
MaxIterPushes == 4

\* The most calls of next made after the first None.
MaxIterNones == 2

\* The code given to new: a code of TestError1 and the derived enums, and a
\* code of TestError3.
IterCodes == {0, 3}

\* The code given to push_front.
IterPushCodes == {3}

\* The link indices given to push_front: 0, 1 and 3 are within the six-entry
\* tables (TestError3 holds itself at 0 and TestError1 at 1, TestError1 holds
\* TestError3 at 3, the other entries being Unused) and 1 or 3 beyond the
\* derived tables; 6 is beyond every table; 7 stores the field 0 of an absent
\* link.
IterIndices == {0, 1, 3, 6, 7}

\* The dispatch functions given to from_raw_parts.
IterStarts == {Unused, "TestError1", "TestError3", "TestError", "SeperateError"}

InitIter ==
    /\ cfg \in {Profile(FALSE, dev) : dev \in BOOLEAN}
    /\ kind = "ErrorData"
    /\ \E ec \in IterCodes :
          /\ data = ErrorData_new(ec)
          /\ hist = <<Entry(ec, "raw", None)>>
    /\ cat = "raw"
    /\ ret = Returned
    /\ panicked = NoPanic
    /\ iter = NoIter

\* ErrorData::push_front(error_code, category_index) before the record is used
PushFrontIter(ec, idx) ==
    /\ Len(hist) <= MaxIterPushes
    /\ PushFront(ec, idx)

\* DynError::from_raw_parts(error_data, format_chained::<c>)
FromRawParts(c) ==
    /\ kind = "ErrorData" /\ Running
    /\ kind' = "DynError"
    /\ cat' = c
    /\ ret' = Returned
    /\ UNCHANGED <<cfg, data, hist, panicked, iter>>

\* DynError::iter()
Iter ==
    /\ kind = "DynError" /\ Running
    /\ iter = NoIter
    /\ iter' = [ state |-> "iterating", it |-> ErrorIter_new(data, cat),
                 yielded |-> <<>>, nones |-> 0 ]
    /\ UNCHANGED <<cfg, kind, data, cat, hist, ret, panicked>>

\* ErrorIter::next()
IterNext ==
    /\ iter.state = "iterating" /\ Running
    /\ iter.nones < MaxIterNones
    /\ LET n == ErrorIter_next(iter.it, cfg)
       IN  /\ iter' = [ state |-> "iterating", it |-> n.iter,
                        yielded |-> IF n.item = None THEN iter.yielded
                                    ELSE Append(iter.yielded, n.item[1]),
                        nones |-> IF n.item = None THEN iter.nones + 1
                                  ELSE iter.nones ]
           /\ ret' = [op |-> "next", result |-> n.item]
    /\ UNCHANGED <<cfg, kind, data, cat, hist, panicked>>

NextIter ==
    \/ \E ec \in IterPushCodes, idx \in IterIndices : PushFrontIter(ec, idx)
    \/ \E c \in IterStarts : FromRawParts(c)
    \/ Iter
    \/ IterNext

SpecIter == InitIter /\ [][NextIter]_vars

\* The nodes from chain position k on, the node at k being of category c:
\* its code with the handle of c, and then the nodes from the category that
\* the link index stored for node k names in the link table of c, if that
\* index is present and within the table and k is not the last position.
RECURSIVE Walk(_, _, _, _)
Walk(d, c, k, build) ==
    LET table == chainable_category_formatters(c)
        field == IF k < ERROR_CHAIN_LEN THEN LinkAt(d, k) ELSE 0
    IN  <<  <<CodeAt(d, k), ErrorCategoryHandle_new(c, build)>>  >>
            \o (IF field # 0 /\ field - 1 < Len(table)
                THEN Walk(d, table[field], k + 1, build)
                ELSE <<>>)

\* C24: for every packed record, also one made through from_raw_parts with
\* link indices that do not fit the categories, and every starting dispatch
\* function, the iterator yields at least 1 and at most 5 items and then
\* None, and no call panics: the items are the nodes up to and including the
\* first node whose stored link index is absent or out of range for the link
\* table of that node's category, also when the categories link in a cycle.
IterTerminates ==
    /\ panicked = NoPanic
    /\ kind = "DynError" =>
          LET walk == Walk(data, cat, 0, cfg)
              items == IterItems(ErrorIter_new(data, cat), cfg)
          IN  /\ Len(walk) \in 1..(ERROR_CHAIN_LEN + 1)
              /\ items = walk
    /\ iter.state = "iterating" =>
          LET walk == Walk(data, cat, 0, cfg)
          IN  /\ Len(iter.yielded) <= Len(walk)
              /\ iter.yielded = SubSeq(walk, 1, Len(iter.yielded))
              /\ ErrorIter_next(iter.it, cfg).item = None
                    <=> Len(iter.yielded) = Len(walk)
              /\ iter.nones > 0 => iter.yielded = walk

\* An iterator over a full record whose links lead from TestError3 to itself,
\* on to TestError1 and back to TestError3 has yielded five items and then
\* None.
IterTerminatesWitness ==
    /\ iter.state = "iterating" /\ iter.nones > 0
    /\ Len(iter.yielded) = ERROR_CHAIN_LEN + 1
    /\ cat = "TestError3"
    /\ iter.yielded[2][2] = ErrorCategoryHandle_new("TestError3", cfg)
    /\ iter.yielded[3][2] = ErrorCategoryHandle_new("TestError1", cfg)
    /\ iter.yielded[4][2] = ErrorCategoryHandle_new("TestError3", cfg)

-----------------------------------------------------------------------------
(* The exhausted iterator *)

\* Whether the record iterator has no further pair.
NoFurtherPair(it) == it.chain_iter.formatters = ZeroWord

\* Whether the dispatch function of the iterator's node returns no next
\* dispatch function: the link index is absent or not within the table.
NoNextDispatch(it) ==
    \/ it.next_formatter_index = None
    \/ it.next_formatter_index[1]
          >= Len(chainable_category_formatters(it.formatter_func[1]))

\* C25: once next() has returned None, the dispatch function being absent,
\* every later call returns None and yields nothing; a call made while the
\* dispatch function is present emits the item of its node, and it enters
\* the exhausted state exactly when the record iterator has no further pair
\* or the node's dispatch returns no next dispatch function.
ExhaustedStays ==
    [][(iter.state = "iterating" /\ iter'.state = "iterating") =>
          LET it == iter.it
          IN  /\ iter.nones > 0 => it.formatter_func = None
              /\ it.formatter_func = None =>
                    /\ ret'.result = None
                    /\ iter'.it.formatter_func = None
                    /\ iter'.yielded = iter.yielded
                    /\ iter'.nones = iter.nones + 1
              /\ it.formatter_func # None =>
                    /\ ret'.result
                          = Some(<<it.curr_error_code,
                                   ErrorCategoryHandle_new(it.formatter_func[1], cfg)>>)
                    /\ iter'.yielded = Append(iter.yielded, ret'.result[1])
                    /\ iter'.nones = iter.nones
                    /\ iter'.it.formatter_func = None
                          <=> (NoFurtherPair(it) \/ NoNextDispatch(it))
    ]_vars

\* An iterator over a record of three chained codes has emitted the item of
\* its second node, whose link index is beyond the table of TestError (so
\* that the record iterator still had a pair), and has then returned None
\* twice.
ExhaustedStaysWitness ==
    /\ iter.state = "iterating" /\ iter.nones = MaxIterNones
    /\ iter.it.formatter_func = None
    /\ Len(hist) = 4 /\ Len(iter.yielded) = 2
    /\ iter.yielded[2][2] = ErrorCategoryHandle_new("TestError", cfg)
    /\ LinkAt(data, 1) = 2 /\ LinkAt(data, 2) # 0
    /\ ret.op = "next" /\ ret.result = None

-----------------------------------------------------------------------------
(* Rendering and iteration *)

\* The conversion of a node's code to the node's category, as fmt makes it.
NodeConv(node, build) ==
    FromCode(node[2].chainable_category_formatters, node[1], build)

\* The positions of the nodes whose code does not convert: the code is no
\* code of the category (always so for Unused) and the build checks it or
\* cannot make up a variant.
BadNodes(nodes, build) == {k \in 1..Len(nodes) : ~NodeConv(nodes[k], build).ok}

\* Whether rendered line k is the line of the node: its category name, its
\* code and the text of the variant its code converts to.
LineOf(out, k, node, build) ==
    SubSeq(out, 6 * k - 5, 6 * k - 1)
        = << Handle_name(node[2]), "(", ToString(node[1]), "): ",
             DebugText(node[2].chainable_category_formatters,
                       NodeConv(node, build).variant) >>

\* C26 as stated: for every error value, also one made through
\* from_raw_parts, and a sink that never fails, fmt completes without panic
\* and renders as many lines as iter() yields items, line k with the code and
\* the category name of item k.
RenderingNeverPanics ==
    (kind = "DynError" /\ iter = NoIter) =>
        LET items == IterItems(ErrorIter_new(data, cat), cfg)
            r == DynError_fmt(data, cat, NewSink(-1), cfg)
        IN  /\ r.ok /\ r.panic = ""
            /\ Len(r.f.out) = 6 * Len(items) - 1
            /\ \A k \in 1..Len(items) :
                  /\ r.f.out[6 * k - 5] = Handle_name(items[k][2])
                  /\ r.f.out[6 * k - 3] = ToString(items[k][1])

\* C26: fmt and iter() walk the same nodes, and with a sink that never fails
\* fmt renders them line by line for as long as each node's code converts to
\* the node's category. When every node's code does, as in every value the
\* safe constructors build, fmt returns Ok, having rendered as many lines as
\* iter() yields items, line k with the category name and the code of item
\* k. When some node's code does not (a record made through from_raw_parts
\* whose code is no code of the category, or whose link names an Unused
\* entry), fmt renders the lines of the nodes before the first such node and
\* then panics in the conversion of that node's code (or is undefined, for a
\* derived enum of several variants without debug assertions).
RenderingWalksNodes ==
    (kind = "DynError" /\ iter = NoIter) =>
        LET items == IterItems(ErrorIter_new(data, cat), cfg)
            r == DynError_fmt(data, cat, NewSink(-1), cfg)
            bad == BadNodes(items, cfg)
        IN  /\ bad = {} =>
                  /\ r.ok /\ r.panic = ""
                  /\ Len(r.f.out) = 6 * Len(items) - 1
                  /\ \A k \in 1..Len(items) : LineOf(r.f.out, k, items[k], cfg)
                  /\ \A k \in 1..(Len(items) - 1) : r.f.out[6 * k] = "\n- "
            /\ bad # {} =>
                  LET b == CHOOSE k \in bad : \A j \in bad : k <= j
                  IN  /\ ~r.ok
                      /\ r.panic = NodeConv(items[b], cfg).variant
                      /\ Len(r.f.out) = 6 * (b - 1)
                      /\ \A k \in 1..(b - 1) : LineOf(r.f.out, k, items[k], cfg)

\* A DynError made with from_raw_parts from a record of two pushes and the
\* dispatch function of TestError3: the nodes are of TestError3, TestError3
\* and TestError1, each with a code of its category, and fmt has rendered
\* three lines.
RenderingWalksNodesWitness ==
    /\ kind = "DynError" /\ cat = "TestError3" /\ hist[1].cat = "raw"
    /\ Len(hist) = 3
    /\ LET items == IterItems(ErrorIter_new(data, cat), cfg)
           r == DynError_fmt(data, cat, NewSink(-1), cfg)
       IN  /\ Len(items) = 3 /\ BadNodes(items, cfg) = {}
           /\ r.ok
           /\ r.f.out = << "ErrorCategory", "(", "3", "): ", "Err0", "\n- ",
                           "ErrorCategory", "(", "3", "): ", "Err0", "\n- ",
                           "ErrorCategory", "(", "0", "): ", "Err0" >>

-----------------------------------------------------------------------------
(* The program that pushes codes onto a bare ErrorData and then replaces its  *)
(* current code with any u8.                                                  *)

\* error_code of the pushes: all bits set
SetCodePushCodes == {15}

\* code: u8 values below 16, at 16 and above
U8SetCodes == {15, 16, 250}

\* ErrorData::push_front(error_code, category_index) before set_code
PushFrontFirst(ec, idx) ==
    /\ ret.op # "set_code"
    /\ PushFront(ec, idx)

\* ErrorData::set_code(code), the last call of the program
SetCodeLast(ec) ==
    /\ ret.op # "set_code"
    /\ SetCode(ec)

NextSetCode ==
    \/ \E ec \in SetCodePushCodes, idx \in QueueIndices : PushFrontFirst(ec, idx)
    \/ \E ec \in U8SetCodes : SetCodeLast(ec)

SpecSetCode == InitQueue /\ [][NextSetCode]_vars

\* The u8 values set_code is tried with on every record.
U8Samples == {0, 1, 9, 15, 16, 17, 128, 250, 255}

\* C27: set_code(code) returns the current code of before, makes code mod 16
\* the current code, for every u8 code, and leaves the four chained codes
\* and the four link fields as they were, so that chain_len() and
\* iter_chain() are as before; a record that went through set_code still
\* packs its history, the replaced code in front.
SetCodeFrame ==
    (kind = "ErrorData" /\ Running) =>
        LET len == chain_len(data)
            pairs == ChainItems(iter_chain(data))
        IN  /\ Packs(data, hist)
            /\ ret.op = "set_code" => code(data) = hist[1].code
            /\ \A ec \in U8Samples :
                  LET r == set_code(data, ec)
                  IN  /\ r.old = code(data)
                      /\ code(r.data) = ec % 16
                      /\ \A k \in 1..ERROR_CHAIN_LEN :
                            CodeAt(r.data, k) = CodeAt(data, k)
                      /\ \A j \in 0..(ERROR_CHAIN_LEN - 1) :
                            LinkAt(r.data, j) = LinkAt(data, j)
                      /\ chain_len(r.data) = len
                      /\ ChainItems(iter_chain(r.data)) = pairs

\* set_code(250) on a record with a full chain whose current code was 15:
\* it returned 15, the current code is 10 and the first chained code is
\* still 15.
SetCodeFrameWitness ==
    /\ kind = "ErrorData" /\ ret.op = "set_code" /\ ret.result = 15
    /\ code(data) = 10
    /\ chain_len(data) = ERROR_CHAIN_LEN
    /\ CodeAt(data, 1) = 15 /\ LinkAt(data, 0) = 7
    /\ CodeAt(data, ERROR_CHAIN_LEN) = 0 /\ LinkAt(data, ERROR_CHAIN_LEN - 1) = 1

-----------------------------------------------------------------------------
(* try_chain with a category that lists the error's category more than once  *)

\* The positions of the link table of c that hold the formatter.
Positions(c, formatter) ==
    LET formatters == chainable_category_formatters(c)
    IN  {i \in 0..(Len(formatters) - 1) : formatters[i + 1] = formatter}

SmallestOf(S) == CHOOSE i \in S : \A j \in S : i <= j

\* What try_chain gives for every code of a category that holds the
\* formatter of the erased error at several positions.
ChainsOnceAtFirstOf(d, formatter, build) ==
    \A c \in Values :
        Cardinality(Positions(c, formatter)) > 1 =>
            \A y \in Codes(c) :
                LET first == SmallestOf(Positions(c, formatter))
                    r == try_chain(d, formatter, c, y, build)
                    once == push_front(d, y, first, build.debug_assertions)
                IN  /\ r.ok /\ r.cat = c
                    /\ (r.panic # "") <=> OverflowPanics(d, build)
                    /\ r.panic = "" =>
                          /\ r.data = once.data
                          /\ code(r.data) = y
                          /\ LinkAt(r.data, 0) = first + 1
                          /\ CodeAt(r.data, 1) = code(d)
                          /\ \A j \in 1..(ERROR_CHAIN_LEN - 1) :
                                /\ LinkAt(r.data, j) = LinkAt(d, j - 1)
                                /\ CodeAt(r.data, j + 1) = CodeAt(d, j)
                          /\ chain_len(r.data)
                                = Min(chain_len(d) + 1, ERROR_CHAIN_LEN)

\* A step of try_chain that returned Ok, with a category that holds the
\* formatter of the erased error at several positions.
TryChainOkStep ==
    /\ kind = "DynError" /\ Built
    /\ kind' = "Error" /\ panicked' = NoPanic
    /\ Len(hist') = Len(hist) + 1
    /\ Cardinality(Positions(cat', cat)) > 1

\* C28: when the dispatch function of an erased error is at several positions
\* of the link table of the new code's category, try_chain finds it; unless
\* the chain is full in the build that panics on overflow, it returns the
\* record with the new code pushed once and the smallest of the positions as
\* its first link index, the old current code and links moved down one
\* place, and chain_len() is min(old chain_len() + 1, 4).  The error such a
\* try_chain call leaves behind packs the history with one more entry and
\* that position.
ChainsOnceAtFirst ==
    /\ []((Built /\ kind = "DynError") => ChainsOnceAtFirstOf(data, cat, cfg))
    /\ [][TryChainOkStep =>
             /\ hist'[2].link = Some(SmallestOf(Positions(cat', cat)))
             /\ Tail(Tail(hist')) = Tail(hist)
             /\ Packs(data', hist')
             /\ chain_len(data') = Min(chain_len(data) + 1, ERROR_CHAIN_LEN)]_vars

\* A TestError1 error with a full chain was erased and try_chain gave it the
\* code of TwiceError, whose links name TestError1 twice: the link index is
\* 0, the chain is still four long and the oldest code is gone.
ChainsOnceAtFirstWitness ==
    /\ Built /\ kind = "Error" /\ cat = "TwiceError"
    /\ Positions("TwiceError", "TestError1") = {0, 1}
    /\ Len(hist) = ERROR_CHAIN_LEN + 2
    /\ hist[2].cat = "TestError1" /\ hist[2].link = Some(0)
    /\ LinkAt(data, 0) = 1 /\ LinkAt(data, 1) > 1
    /\ chain_len(data) = ERROR_CHAIN_LEN

-----------------------------------------------------------------------------
(* The program that builds a record by new and push_front, makes an Error of  *)
(* any category of it with from_raw, erases it and converts it back.          *)

\* The code given to new.
RoundCodes == {0, 15}

\* The code given to push_front.
RoundPushCodes == {3}

\* The link indices given to push_front.
RoundIndices == {0, 3, 6}

InitRound ==
    /\ cfg \in Builds
    /\ kind = "ErrorData"
    /\ \E ec \in RoundCodes :
          /\ data = ErrorData_new(ec)
          /\ hist = <<Entry(ec, "raw", None)>>
    /\ cat = "raw"
    /\ ret = Returned
    /\ panicked = NoPanic
    /\ iter = NoIter

\* ErrorData::push_front(error_code, category_index) before the record is used
PushFrontRound(ec, idx) ==
    /\ Len(hist) <= MaxIterPushes
    /\ PushFront(ec, idx)

\* Error::<c>::from_raw(error_data)
ErrorFromRaw(c) ==
    /\ kind = "ErrorData" /\ Running
    /\ kind' = "Error"
    /\ cat' = c
    /\ ret' = Returned
    /\ UNCHANGED <<cfg, data, hist, panicked, iter>>

NextRound ==
    \/ \E ec \in RoundPushCodes, idx \in RoundIndices : PushFrontRound(ec, idx)
    \/ \E c \in Categories : ErrorFromRaw(c)
    \/ IntoDyn
    \/ \E c \in Categories : TryInto(c)

SpecRound == InitRound /\ [][NextRound]_vars

\* The round trip of the Error<c> with the record d.
RoundTripOf(d, c, build) ==
    LET dyn == DynError_from(d, c)
        back == DynError_try_into(dyn.error, dyn.category_formatter, c, build)
    IN  /\ back.ok /\ back.cat = c
        /\ Error_eq(back.data, d)
        /\ DynError_into_raw_parts(dyn)[1] = d
        /\ \A other \in Categories \ {c} :
              LET r == DynError_try_into(dyn.error, dyn.category_formatter,
                                         other, build)
              IN  /\ ~r.ok
                  /\ DynError_eq(r.data, r.cat, dyn.error, dyn.category_formatter)

\* What the steps of from and try_into do.
RoundTripStep ==
    /\ (kind = "Error" /\ kind' = "DynError") =>
          LET dyn == DynError_from(data, cat)
          IN  data' = dyn.error /\ cat' = dyn.category_formatter
    /\ (kind = "DynError" /\ kind' = "Error") =>
          (Error_eq(data', data) /\ cat' = cat)
    /\ (kind = "DynError" /\ kind' = "DynError") =>
          /\ ret'.op = "Err" /\ data' = data /\ cat' = cat
          /\ DynError_eq(ret'.error, ret'.category_formatter, data, cat)

=============================================================================
